---- MODULE Spec2Model ----
(***************************************************************************)
(* Model of the F1 data pipeline's core:                                   *)
(*   - ProgressTracker (data_collection/progress_tracker.py), the          *)
(*     completion ledger backed by a newline-delimited file;               *)
(*   - apply_rate_limiting and throttle_requests (utils/rate_limiter.py);  *)
(*   - ReconciliationEngine (data_reconciliation/reconciliation_engine.py) *)
(*     over data frames given as a list of column labels and a list of     *)
(*     rows;                                                               *)
(*   - the collectors' use of the ledger and of the wrapped fetch          *)
(*     (data_collection/fastf1_collector.py, openf1_collector.py).         *)
(* The backing file is a sequence of characters; keys are sequences of     *)
(* characters.  One write(2) on the append-mode descriptor is one step:    *)
(* the record "key\n" is flushed whole when the with-block closes the      *)
(* file, or the flush fails and the file is left as it was.                *)
(***************************************************************************)
EXTENDS Integers, Sequences, FiniteSets, TLC

VARIABLES
    store_exists,     \* log_file_path.exists()
    store,            \* the contents of the backing file, a sequence of characters
    init_pc,          \* where ProgressTracker.__init__ stands
    completed_items,  \* self.completed_items
    pc,               \* per worker: position inside mark_completed
    item_key,         \* per worker: the argument of the call in progress (or last call)
    buffer,           \* per worker: text written to the open file object, not yet flushed
    outcome,          \* per worker: how the last call ended ("none", "returned", "raised")
    prev,             \* per worker (ghost): the previous call and the state at this call's entry
    appended,         \* ghost: number of records flushed to the store, per key
    crashes,          \* ghost: number of process crashes so far
    ncalls,           \* ghost: number of mark_completed calls made so far
    \* apply_rate_limiting.wrapper
    rl_pc,            \* position inside the wrapper
    attempt,          \* the loop variable of line 26
    caught,           \* the exception bound to e at line 29
    delay,            \* the delay computed at lines 34-42
    rl_result,        \* what the wrapper gave its caller
    history,          \* ghost: how each invocation of func ended, in order
    slept,            \* ghost: the delays slept, in order
    rl_calls,         \* ghost: number of calls of the wrapper so far
    \* throttle_requests(min_interval): one decorated function and its callers
    now,              \* the clock read by time.time()
    last_called,      \* last_called[0]
    th_pc,            \* per caller: position inside the wrapper
    current_time,     \* per caller: the local of line 70
    elapsed,          \* per caller: the local of line 71
    wake_at,          \* per caller: the earliest time at which time.sleep may return
    started,          \* per caller (ghost): when its invocation of func started
    finished_before,  \* per caller (ghost): when the previous call through the wrapper ended
    last_finished,    \* ghost: when the last call through the wrapper ended (returned or raised)
    th_calls,         \* ghost: number of calls through the wrapper so far
    \* ReconciliationEngine.reconcile_session_data: one call and its caller
    data_type,        \* the data_type argument
    fastf1_data,      \* the caller's FastF1 object (its contents now)
    openf1_data,      \* the caller's OpenF1 object (its contents now)
    fastf1_arg,       \* ghost: the FastF1 object's contents when the call was made
    openf1_arg,       \* ghost: the OpenF1 object's contents when the call was made
    rc_pc,            \* position of the caller: "off", "ready", "returned"
    rc_result,        \* what reconcile_session_data returned
    rc_path,          \* ghost: the return statement that produced rc_result
    \* ReconciliationEngine.reconcile_full_session: one call
    fastf1_session,   \* the fastf1_session argument (its contents now)
    fastf1_given,     \* ghost: the fastf1_session argument's contents at the call
    openf1_session,   \* the openf1_session argument
    fs_pc,            \* position of the call: "off", "loop", "returned"
    fs_i,             \* the loop of line 231: index of the next data type
    reconciled_data,  \* the dict built at lines 226-237
    fs_calls,         \* ghost: the calls of reconcile_session_data made, in order
    \* a caller of ProgressTracker.get_all_completed
    all_completed,    \* the object get_all_completed returned to the caller
    at_call,          \* ghost: self.completed_items when get_all_completed was called
    caller_pc,        \* what the caller last did
    \* a second ProgressTracker constructed on the same log file
    peer_pc,          \* where its __init__ / mark_completed stands
    peer_items,       \* its self.completed_items
    peer_key,         \* the argument of its mark_completed call
    \* FastF1Collector.collect_session / OpenF1Collector.get_live_session_data
    collector,        \* which of the two collectors is called
    col_pc,           \* position inside the call
    col_key,          \* the work-item key built from the arguments
    col_data,         \* what the wrapped fetch returned: "none", "empty", "data"
    col_result,       \* what the call returned to its caller
    col_prev,         \* ghost: the ledger and the fetch count at the call's entry
    ncollects         \* ghost: number of collector calls so far

ledgerVars == <<store_exists, store, init_pc, completed_items, pc, item_key,
                buffer, outcome, prev, appended, crashes, ncalls>>

retryVars == <<rl_pc, attempt, caught, delay, rl_result, history, slept, rl_calls>>

throttleVars == <<now, last_called, th_pc, current_time, elapsed, wake_at,
                  started, finished_before, last_finished, th_calls>>

reconcileVars == <<data_type, fastf1_data, openf1_data, fastf1_arg, openf1_arg,
                   rc_pc, rc_result, rc_path>>

sessionVars == <<fastf1_session, fastf1_given, openf1_session, fs_pc, fs_i, reconciled_data,
                 fs_calls>>

callerVars == <<all_completed, at_call, caller_pc>>

peerVars == <<peer_pc, peer_items, peer_key>>

collectVars == <<collector, col_pc, col_key, col_data, col_result, col_prev,
                 ncollects>>

\* the components added around the four above
clientVars == <<sessionVars, callerVars, peerVars, collectVars>>

vars == <<ledgerVars, retryVars, throttleVars, reconcileVars, clientVars>>

\* what the steps of one component leave alone
nonLedgerVars == <<retryVars, throttleVars, reconcileVars, clientVars>>
nonRetryVars == <<ledgerVars, throttleVars, reconcileVars, clientVars>>
nonThrottleVars == <<ledgerVars, retryVars, reconcileVars, clientVars>>
nonReconcileVars == <<ledgerVars, retryVars, throttleVars, clientVars>>

----------------------------------------------------------------------------
(* Bounds *)

MaxCrashes == 1
MaxCalls == 4
MaxRetryCalls == 3
\* random.uniform(0, 1) is drawn from JitterSteps equally spaced values of
\* [0, 1); a time is a whole number of 1/JitterSteps seconds
JitterSteps == 2
\* min_interval, the decorator's argument, in clock ticks
MinInterval == 2
\* the clock is followed for MaxTicks ticks
MaxTicks == 5
MaxThrottleCalls == 3
MaxCollects == 3

----------------------------------------------------------------------------
(* Keys and text *)

NL == "\n"
\* work-item keys as the collectors build them: non-empty, free of line breaks;
\* "ab" is the concatenation of two other keys, so record boundaries matter
Keys == {<<"a">>, <<"b">>, <<"a", "b">>}
\* a key that contains a line break, as mark_completed accepts any string
LineBreakKeys == {<<"a", NL, "b">>}
AllKeys == Keys \cup LineBreakKeys
NoKey == <<"none">>
\* two collection workers are enough for every race between two calls
Workers == {1, 2}

\* mutant: the record is written without its line break
RecordUnterminated(k) == k

\* f"{item_key}\n" (progress_tracker.py line 53)
Record(k) == k \o <<NL>>

\* str.splitlines() on the text read back (progress_tracker.py line 24):
\* lines end at a line break; a final line without a break counts when it is
\* not empty.
RECURSIVE SplitFrom(_, _, _)
SplitFrom(s, i, cur) ==
    IF i > Len(s)
    THEN IF cur = << >> THEN << >> ELSE <<cur>>
    ELSE IF s[i] = NL
         THEN <<cur>> \o SplitFrom(s, i + 1, << >>)
         ELSE SplitFrom(s, i + 1, Append(cur, s[i]))

splitlines(s) == SplitFrom(s, 1, << >>)

Range(f) == {f[i] : i \in DOMAIN f}

\* set(f.read().splitlines())
LoadedSet(s) == Range(splitlines(s))

\* ProgressTracker.is_completed
is_completed(k) == k \in completed_items

NoPrev == [key |-> NoKey, outcome |-> "none", store |-> << >>, items |-> {}]

----------------------------------------------------------------------------
(* ProgressTracker.__init__ / _load_completed *)

\* line 22: if self.log_file_path.exists()
LoadCheck ==
    /\ UNCHANGED nonLedgerVars
    /\ init_pc = "new"
    /\ init_pc' = IF store_exists THEN "read" ELSE "create"
    /\ UNCHANGED <<store_exists, store, completed_items, pc, item_key, buffer,
                   outcome, prev, appended, crashes, ncalls>>

\* lines 23-24: read the file and keep the set of its lines
LoadRead ==
    /\ UNCHANGED nonLedgerVars
    /\ init_pc = "read"
    /\ completed_items' = LoadedSet(store)
    /\ init_pc' = "ready"
    /\ UNCHANGED <<store_exists, store, pc, item_key, buffer, outcome, prev,
                   appended, crashes, ncalls>>

\* lines 27-30: mkdir, then open(..., 'w') creates (and would truncate) the file
LoadCreate ==
    /\ UNCHANGED nonLedgerVars
    /\ init_pc = "create"
    /\ store_exists' = TRUE
    /\ store' = << >>
    /\ init_pc' = "ready"
    /\ UNCHANGED <<completed_items, pc, item_key, buffer, outcome, prev,
                   appended, crashes, ncalls>>

----------------------------------------------------------------------------
(* ProgressTracker.mark_completed, one step per line *)

\* a worker calls mark_completed(k)
EnterMarkCompleted(w, k) ==
    /\ init_pc = "ready"
    /\ pc[w] = "idle"
    /\ ncalls < MaxCalls
    /\ pc' = [pc EXCEPT ![w] = "l51"]
    /\ item_key' = [item_key EXCEPT ![w] = k]
    /\ outcome' = [outcome EXCEPT ![w] = "none"]
    /\ prev' = [prev EXCEPT ![w] = [key |-> item_key[w], outcome |-> outcome[w],
                                    store |-> store, items |-> completed_items]]
    /\ ncalls' = ncalls + 1
    /\ UNCHANGED <<store_exists, store, init_pc, completed_items, buffer,
                   appended, crashes>>

\* a worker calls mark_completed(k) on its own
Call(w, k) ==
    /\ UNCHANGED nonLedgerVars
    /\ EnterMarkCompleted(w, k)

\* mutant: no membership test, every call appends
CheckAlways(w) ==
    /\ UNCHANGED nonLedgerVars
    /\ pc[w] = "l51"
    /\ pc' = [pc EXCEPT ![w] = "l52"]
    /\ UNCHANGED <<store_exists, store, init_pc, completed_items, item_key,
                   buffer, outcome, prev, appended, crashes, ncalls>>

\* line 51: if item_key not in self.completed_items
Check(w) ==
    /\ UNCHANGED nonLedgerVars
    /\ pc[w] = "l51"
    /\ IF item_key[w] \notin completed_items
       THEN /\ pc' = [pc EXCEPT ![w] = "l52"]
            /\ UNCHANGED outcome
       ELSE /\ pc' = [pc EXCEPT ![w] = "idle"]
            /\ outcome' = [outcome EXCEPT ![w] = "returned"]
    /\ UNCHANGED <<store_exists, store, init_pc, completed_items, item_key,
                   buffer, prev, appended, crashes, ncalls>>

\* line 52: open(self.log_file_path, 'a') succeeds (creating the file if absent)
Open(w) ==
    /\ UNCHANGED nonLedgerVars
    /\ pc[w] = "l52"
    /\ pc' = [pc EXCEPT ![w] = "l53"]
    /\ store_exists' = TRUE
    /\ UNCHANGED <<store, init_pc, completed_items, item_key, buffer, outcome,
                   prev, appended, crashes, ncalls>>

\* line 52: open fails; the OSError leaves mark_completed
OpenFails(w) ==
    /\ UNCHANGED nonLedgerVars
    /\ pc[w] = "l52"
    /\ pc' = [pc EXCEPT ![w] = "idle"]
    /\ outcome' = [outcome EXCEPT ![w] = "raised"]
    /\ UNCHANGED <<store_exists, store, init_pc, completed_items, item_key,
                   buffer, prev, appended, crashes, ncalls>>

\* mutant: the key is inserted in memory before the record is flushed
WriteAddsFirst(w) ==
    /\ UNCHANGED nonLedgerVars
    /\ pc[w] = "l53"
    /\ buffer' = [buffer EXCEPT ![w] = Record(item_key[w])]
    /\ completed_items' = completed_items \cup {item_key[w]}
    /\ pc' = [pc EXCEPT ![w] = "close"]
    /\ UNCHANGED <<store_exists, store, init_pc, item_key, outcome, prev,
                   appended, crashes, ncalls>>

\* line 53: f.write(f"{item_key}\n") fills the file object's buffer
Write(w) ==
    /\ UNCHANGED nonLedgerVars
    /\ pc[w] = "l53"
    /\ buffer' = [buffer EXCEPT ![w] = Record(item_key[w])]
    /\ pc' = [pc EXCEPT ![w] = "close"]
    /\ UNCHANGED <<store_exists, store, init_pc, completed_items, item_key,
                   outcome, prev, appended, crashes, ncalls>>

\* end of the with-block: the buffer is flushed by one append and the file closed
Close(w) ==
    /\ UNCHANGED nonLedgerVars
    /\ pc[w] = "close"
    /\ store' = store \o buffer[w]
    /\ appended' = [appended EXCEPT ![item_key[w]] = @ + 1]
    /\ buffer' = [buffer EXCEPT ![w] = << >>]
    /\ pc' = [pc EXCEPT ![w] = "l54"]
    /\ UNCHANGED <<store_exists, init_pc, completed_items, item_key, outcome,
                   prev, crashes, ncalls>>

\* mutant: the failed flush is swallowed and the call goes on to line 54
CloseFailsSwallowed(w) ==
    /\ UNCHANGED nonLedgerVars
    /\ pc[w] = "close"
    /\ buffer' = [buffer EXCEPT ![w] = << >>]
    /\ pc' = [pc EXCEPT ![w] = "l54"]
    /\ UNCHANGED <<store_exists, store, init_pc, completed_items, item_key,
                   outcome, prev, appended, crashes, ncalls>>

\* end of the with-block: the flush fails; the OSError leaves mark_completed
CloseFails(w) ==
    /\ UNCHANGED nonLedgerVars
    /\ pc[w] = "close"
    /\ buffer' = [buffer EXCEPT ![w] = << >>]
    /\ pc' = [pc EXCEPT ![w] = "idle"]
    /\ outcome' = [outcome EXCEPT ![w] = "raised"]
    /\ UNCHANGED <<store_exists, store, init_pc, completed_items, item_key,
                   prev, appended, crashes, ncalls>>

\* line 54: self.completed_items.add(item_key), then the call returns
Add(w) ==
    /\ UNCHANGED nonLedgerVars
    /\ pc[w] = "l54"
    /\ completed_items' = completed_items \cup {item_key[w]}
    /\ pc' = [pc EXCEPT ![w] = "idle"]
    /\ outcome' = [outcome EXCEPT ![w] = "returned"]
    /\ UNCHANGED <<store_exists, store, init_pc, item_key, buffer, prev,
                   appended, crashes, ncalls>>

\* the process dies at any point; only the file survives, and the next run
\* constructs a new ProgressTracker on the same path
Crash ==
    /\ UNCHANGED nonLedgerVars
    /\ crashes < MaxCrashes
    /\ init_pc \in {"read", "create", "ready"}
    /\ crashes' = crashes + 1
    /\ init_pc' = "new"
    /\ completed_items' = {}
    /\ pc' = [w \in Workers |-> IF pc[w] = "off" THEN "off" ELSE "idle"]
    /\ item_key' = [w \in Workers |-> NoKey]
    /\ buffer' = [w \in Workers |-> << >>]
    /\ outcome' = [w \in Workers |-> "none"]
    /\ prev' = [w \in Workers |-> NoPrev]
    /\ UNCHANGED <<store_exists, store, appended, ncalls>>

----------------------------------------------------------------------------
(* utils/rate_limiter.py: apply_rate_limiting *)

max_retries == 5
base_delay == 5
Minimum1Minute == 60
Minimum5Minutes == 300
Minimum30Minutes == 1800

Max(a, b) == IF a >= b THEN a ELSE b

RECURSIVE Pow2(_)
Pow2(n) == IF n = 0 THEN 1 ELSE 2 * Pow2(n - 1)

\* a number of seconds as a time
Seconds(n) == n * JitterSteps

\* the values random.uniform(0, 1) takes, as times
Jitter == 0..(JitterSteps - 1)

\* what func can raise: str(e) contains "Rate limit", or it does not
ErrorClasses == {"RateLimit", "Other"}

\* line 31: "Rate limit" in str(e)
IsRateLimit(e) == e.class = "RateLimit"

NoError == [class |-> "none", by |-> 0]
NoResult == [kind |-> "none", class |-> "none", by |-> 0]

\* mutant: the exponential delay without the tiered minimum delays
BackoffDelayNoFloor(n, j) == Seconds(base_delay * Pow2(n)) + j

\* lines 34-42: exponential backoff with jitter, then the tiered minimum delays
BackoffDelay(n, j) ==
    LET d0 == Seconds(base_delay * Pow2(n)) + j
        d1 == IF n >= 1 THEN Max(d0, Seconds(Minimum1Minute)) ELSE d0
        d2 == IF n >= 2 THEN Max(d1, Seconds(Minimum5Minutes)) ELSE d1
        d3 == IF n >= 3 THEN Max(d2, Seconds(Minimum30Minutes)) ELSE d2
    IN  d3

\* a caller calls the wrapped function: the loop of line 26 starts at attempt 0
EnterWrapper ==
    /\ rl_pc \in {"idle", "returned", "raised"}
    /\ rl_calls < MaxRetryCalls
    /\ rl_calls' = rl_calls + 1
    /\ rl_pc' = "try"
    /\ attempt' = 0
    /\ caught' = NoError
    /\ delay' = 0
    /\ rl_result' = NoResult
    /\ history' = << >>
    /\ slept' = << >>

\* a caller calls the wrapped function on its own
RetryCall ==
    /\ UNCHANGED nonRetryVars
    /\ EnterWrapper

\* line 28: func returns, and the wrapper returns its value
FuncReturns ==
    /\ UNCHANGED nonRetryVars
    /\ rl_pc = "try"
    /\ history' = Append(history, "ok")
    /\ rl_result' = [kind |-> "value", class |-> "none", by |-> Len(history) + 1]
    /\ rl_pc' = "returned"
    /\ UNCHANGED <<attempt, caught, delay, slept, rl_calls>>

\* lines 28-29: func raises, and the exception is caught
FuncRaises(c) ==
    /\ UNCHANGED nonRetryVars
    /\ rl_pc = "try"
    /\ history' = Append(history, c)
    /\ caught' = [class |-> c, by |-> Len(history) + 1]
    /\ rl_pc' = "except"
    /\ UNCHANGED <<attempt, delay, rl_result, slept, rl_calls>>

\* the wrapper re-raises the exception it caught (lines 48 and 51)
Reraise ==
    /\ rl_result' = [kind |-> "error", class |-> caught.class, by |-> caught.by]
    /\ rl_pc' = "raised"
    /\ UNCHANGED <<attempt, caught, delay, history, slept, rl_calls>>

\* mutant: the failure of the last attempt is swallowed and None is returned
HandleSwallowsLast ==
    /\ UNCHANGED nonRetryVars
    /\ rl_pc = "except"
    /\ IF IsRateLimit(caught)
       THEN IF attempt < max_retries - 1
            THEN /\ \E j \in Jitter : delay' = BackoffDelay(attempt, j)
                 /\ rl_pc' = "sleep"
                 /\ UNCHANGED <<attempt, caught, rl_result, history, slept, rl_calls>>
            ELSE /\ rl_result' = [kind |-> "None", class |-> "none", by |-> 0]
                 /\ rl_pc' = "returned"
                 /\ UNCHANGED <<attempt, caught, delay, history, slept, rl_calls>>
       ELSE Reraise

\* mutant: every exception is retried, whatever its class
HandleRetriesAll ==
    /\ UNCHANGED nonRetryVars
    /\ rl_pc = "except"
    /\ IF attempt < max_retries - 1
       THEN /\ \E j \in Jitter : delay' = BackoffDelay(attempt, j)
            /\ rl_pc' = "sleep"
            /\ UNCHANGED <<attempt, caught, rl_result, history, slept, rl_calls>>
       ELSE Reraise

\* lines 31-51: classify the exception; compute the delay, or re-raise
Handle ==
    /\ UNCHANGED nonRetryVars
    /\ rl_pc = "except"
    /\ IF IsRateLimit(caught)
       THEN IF attempt < max_retries - 1
            THEN /\ \E j \in Jitter : delay' = BackoffDelay(attempt, j)
                 /\ rl_pc' = "sleep"
                 /\ UNCHANGED <<attempt, caught, rl_result, history, slept, rl_calls>>
            ELSE Reraise
       ELSE Reraise

\* mutant: the sleep is followed by another try of the same attempt
SleepKeepsAttempt ==
    /\ UNCHANGED nonRetryVars
    /\ rl_pc = "sleep"
    /\ slept' = Append(slept, delay)
    /\ rl_pc' = "try"
    /\ UNCHANGED <<attempt, caught, delay, rl_result, history, rl_calls>>

\* line 45: time.sleep(delay), then the next iteration of the loop of line 26;
\* when the loop is exhausted the wrapper falls off its end and returns None
Sleep ==
    /\ UNCHANGED nonRetryVars
    /\ rl_pc = "sleep"
    /\ slept' = Append(slept, delay)
    /\ attempt' = attempt + 1
    /\ IF attempt + 1 < max_retries
       THEN /\ rl_pc' = "try"
            /\ UNCHANGED rl_result
       ELSE /\ rl_pc' = "returned"
            /\ rl_result' = [kind |-> "None", class |-> "none", by |-> 0]
    /\ UNCHANGED <<caught, delay, history, rl_calls>>

RetryStep ==
    \/ RetryCall
    \/ FuncReturns
    \/ \E c \in ErrorClasses : FuncRaises(c)
    \/ Handle
    \/ Sleep

RetryIdle ==
    /\ rl_pc = "idle"
    /\ attempt = 0
    /\ caught = NoError
    /\ delay = 0
    /\ rl_result = NoResult
    /\ history = << >>
    /\ slept = << >>
    /\ rl_calls = 0

----------------------------------------------------------------------------
(* utils/rate_limiter.py: throttle_requests *)

Callers == {1, 2}

\* time.time() when the first call arrives: the clock counts from 1970, so it
\* is past last_called[0]'s initial 0.0 by more than any min_interval
ClockStart == MinInterval + 1
ClockEnd == ClockStart + MaxTicks

NoTime == 0 - 1

\* time passes
Tick ==
    /\ UNCHANGED nonThrottleVars
    /\ now < ClockEnd
    /\ now' = now + 1
    /\ UNCHANGED <<last_called, th_pc, current_time, elapsed, wake_at, started,
                   finished_before, last_finished, th_calls>>

\* a caller calls the decorated function; line 70: current_time = time.time()
ThrottleCall(c) ==
    /\ UNCHANGED nonThrottleVars
    /\ th_pc[c] = "idle"
    /\ th_calls < MaxThrottleCalls
    /\ th_pc' = [th_pc EXCEPT ![c] = "l71"]
    /\ current_time' = [current_time EXCEPT ![c] = now]
    /\ th_calls' = th_calls + 1
    /\ UNCHANGED <<now, last_called, elapsed, wake_at, started, finished_before,
                   last_finished>>

\* line 71: elapsed = current_time - last_called[0]
ReadLastCalled(c) ==
    /\ UNCHANGED nonThrottleVars
    /\ th_pc[c] = "l71"
    /\ elapsed' = [elapsed EXCEPT ![c] = current_time[c] - last_called]
    /\ th_pc' = [th_pc EXCEPT ![c] = "l74"]
    /\ UNCHANGED <<now, last_called, current_time, wake_at, started,
                   finished_before, last_finished, th_calls>>

\* lines 74-75: if elapsed < min_interval, time.sleep(min_interval - elapsed)
MaybeSleep(c) ==
    /\ UNCHANGED nonThrottleVars
    /\ th_pc[c] = "l74"
    /\ IF elapsed[c] < MinInterval
       THEN /\ wake_at' = [wake_at EXCEPT ![c] = now + (MinInterval - elapsed[c])]
            /\ th_pc' = [th_pc EXCEPT ![c] = "sleep"]
       ELSE /\ th_pc' = [th_pc EXCEPT ![c] = "l77"]
            /\ UNCHANGED wake_at
    /\ UNCHANGED <<now, last_called, current_time, elapsed, started,
                   finished_before, last_finished, th_calls>>

\* time.sleep returns, not before the time asked for has passed
WakeUp(c) ==
    /\ UNCHANGED nonThrottleVars
    /\ th_pc[c] = "sleep"
    /\ now >= wake_at[c]
    /\ th_pc' = [th_pc EXCEPT ![c] = "l77"]
    /\ UNCHANGED <<now, last_called, current_time, elapsed, wake_at, started,
                   finished_before, last_finished, th_calls>>

\* line 77: func(*args, **kwargs) is invoked
StartFunc(c) ==
    /\ UNCHANGED nonThrottleVars
    /\ th_pc[c] = "l77"
    /\ th_pc' = [th_pc EXCEPT ![c] = "func"]
    /\ started' = [started EXCEPT ![c] = now]
    /\ finished_before' = [finished_before EXCEPT ![c] = last_finished]
    /\ UNCHANGED <<now, last_called, current_time, elapsed, wake_at,
                   last_finished, th_calls>>

\* line 77: func returns its result
FuncDone(c) ==
    /\ UNCHANGED nonThrottleVars
    /\ th_pc[c] = "func"
    /\ th_pc' = [th_pc EXCEPT ![c] = "l78"]
    /\ last_finished' = now
    /\ UNCHANGED <<now, last_called, current_time, elapsed, wake_at, started,
                   finished_before, th_calls>>

\* line 77: func raises; the exception leaves the wrapper, line 78 is not run
FuncFails(c) ==
    /\ UNCHANGED nonThrottleVars
    /\ th_pc[c] = "func"
    /\ th_pc' = [th_pc EXCEPT ![c] = "idle"]
    /\ last_finished' = now
    /\ UNCHANGED <<now, last_called, current_time, elapsed, wake_at, started,
                   finished_before, th_calls>>

\* lines 78-80: last_called[0] = time.time(), and the wrapper returns
Stamp(c) ==
    /\ UNCHANGED nonThrottleVars
    /\ th_pc[c] = "l78"
    /\ last_called' = now
    /\ th_pc' = [th_pc EXCEPT ![c] = "idle"]
    /\ UNCHANGED <<now, current_time, elapsed, wake_at, started,
                   finished_before, last_finished, th_calls>>

ThrottleStep ==
    \/ Tick
    \/ \E c \in Callers : ThrottleCall(c)
    \/ \E c \in Callers : ReadLastCalled(c)
    \/ \E c \in Callers : MaybeSleep(c)
    \/ \E c \in Callers : WakeUp(c)
    \/ \E c \in Callers : StartFunc(c)
    \/ \E c \in Callers : FuncDone(c)
    \/ \E c \in Callers : FuncFails(c)
    \/ \E c \in Callers : Stamp(c)

\* line 65: last_called = [0.0]; the first n callers use the wrapper
ThrottleInit(n) ==
    /\ now = ClockStart
    /\ last_called = 0
    /\ th_pc = [c \in Callers |-> IF c <= n THEN "idle" ELSE "off"]
    /\ current_time = [c \in Callers |-> 0]
    /\ elapsed = [c \in Callers |-> 0]
    /\ wake_at = [c \in Callers |-> 0]
    /\ started = [c \in Callers |-> NoTime]
    /\ finished_before = [c \in Callers |-> NoTime]
    /\ last_finished = NoTime
    /\ th_calls = 0

----------------------------------------------------------------------------
(* Data frames (pandas.DataFrame) as the reconciliation engine uses them *)

\* a missing value: None, NaN or NaT
NaN == 0 - 1

isna(v) == v = NaN

\* A column label is a string, kept as the list of its parts so that
\* endswith, replace and f"{col}_secondary" are computed on it.
SuffixFastf1 == "_fastf1"
SuffixOpenf1 == "_openf1"
SuffixSecondary == "_secondary"

\* pd.DataFrame: column labels in order, rows in index order (a RangeIndex),
\* each row a tuple of cells aligned with the columns; time_dtype is the
\* dtype of the time column (timedelta64[ns] or float64)
DataFrame(cols, rows, dt) ==
    [kind |-> "DataFrame", columns |-> cols, rows |-> rows, time_dtype |-> dt]

\* the Python value None
None == [kind |-> "None", columns |-> << >>, rows |-> << >>, time_dtype |-> "none"]

\* an object that is no DataFrame: the parsed JSON list OpenF1Collector returns
JsonList == [kind |-> "list", columns |-> << >>, rows |-> << >>, time_dtype |-> "none"]

IsFrame(x) == x.kind = "DataFrame"

\* col in df.columns
HasColumn(df, col) == \E i \in 1..Len(df.columns) : df.columns[i] = col

ColIndex(df, col) == CHOOSE i \in 1..Len(df.columns) : df.columns[i] = col

\* df[col], a Series over the row index
Series(df, col) == [r \in 1..Len(df.rows) |-> df.rows[r][ColIndex(df, col)]]

\* df.rename(columns=mapping): a new frame, labels outside the mapping kept
rename(df, mapping) ==
    [df EXCEPT !.columns =
        [i \in 1..Len(df.columns) |->
            IF df.columns[i] \in DOMAIN mapping
            THEN mapping[df.columns[i]] ELSE df.columns[i]]]

\* df[col] = series: overwrites the column in place, or appends a new one last
SetColumn(df, col, series) ==
    IF HasColumn(df, col)
    THEN [df EXCEPT !.rows =
            [r \in 1..Len(df.rows) |->
                [df.rows[r] EXCEPT ![ColIndex(df, col)] = series[r]]]]
    ELSE [df EXCEPT !.columns = Append(df.columns, col),
                    !.rows = [r \in 1..Len(df.rows) |-> Append(df.rows[r], series[r])]]

\* the positions of s whose element is outside the set labels, in order
KeptPositions(s, labels) ==
    SelectSeq([i \in 1..Len(s) |-> i], LAMBDA i : s[i] \notin labels)

\* df.drop(columns=labels)
DropColumns(df, labels) ==
    LET keep == KeptPositions(df.columns, labels)
    IN  [df EXCEPT !.columns = [i \in 1..Len(keep) |-> df.columns[keep[i]]],
                   !.rows = [r \in 1..Len(df.rows) |->
                                [i \in 1..Len(keep) |-> df.rows[r][keep[i]]]]]

\* a.combine_first(b) assigned back to a frame indexed like a: a's value where
\* it is not missing, else b's value at the same index label if b has one
combine_first(a, b) ==
    [i \in DOMAIN a |->
        IF ~isna(a[i]) THEN a[i]
        ELSE IF i \in DOMAIN b THEN b[i] ELSE NaN]

\* str.endswith and str.replace on a label
endswith(col, suffix) == Len(col) > 0 /\ col[Len(col)] = suffix

replace(col, old, new) ==
    LET R[i \in 0..Len(col)] ==
            IF i = 0 THEN << >>
            ELSE R[i - 1] \o (IF col[i] = old THEN new ELSE <<col[i]>>)
    IN  R[Len(col)]

\* the order pandas sorts join keys in: lexicographic
KeyLess(a, b) ==
    \E i \in 1..Len(a) : a[i] < b[i] /\ \A j \in 1..(i - 1) : a[j] = b[j]

\* pd.merge(left, right, on=on, how=how, suffixes=(ls, rs)) for how in
\* {'outer', 'inner'}: one row per pair of rows with equal keys; with 'outer'
\* also one row per row of either side whose key the other side lacks.  The
\* columns are left's, then right's without the keys; a label both sides have
\* outside the keys gets the side's suffix.
merge(left, right, on, how, ls, rs) ==
    LET KeyOf(df, r) == [k \in 1..Len(on) |-> df.rows[r][ColIndex(df, on[k])]]
        rpos == KeptPositions(right.columns, Range(on))
        overlap == (Range(left.columns) \cap Range(right.columns)) \ Range(on)
        Suffixed(c, s) == IF c \in overlap /\ s # "" THEN Append(c, s) ELSE c
        columns ==
            [i \in 1..Len(left.columns) |-> Suffixed(left.columns[i], ls)]
            \o [i \in 1..Len(rpos) |-> Suffixed(right.columns[rpos[i]], rs)]
        RowsWith(df, k) ==
            SelectSeq([r \in 1..Len(df.rows) |-> r], LAMBDA r : KeyOf(df, r) = k)
        Row(l, r) ==
            [i \in 1..Len(left.columns) |->
                IF l # 0 THEN left.rows[l][i]
                ELSE IF left.columns[i] \in Range(on)
                     THEN right.rows[r][ColIndex(right, left.columns[i])]
                     ELSE NaN]
            \o [i \in 1..Len(rpos) |-> IF r # 0 THEN right.rows[r][rpos[i]] ELSE NaN]
        RowsOfKey(k) ==
            LET lrows == RowsWith(left, k)
                rrows == RowsWith(right, k)
            IN  IF lrows # << >> /\ rrows # << >>
                THEN [n \in 1..(Len(lrows) * Len(rrows)) |->
                        Row(lrows[((n - 1) \div Len(rrows)) + 1],
                            rrows[((n - 1) % Len(rrows)) + 1])]
                ELSE IF how # "outer" THEN << >>
                ELSE IF rrows = << >>
                THEN [n \in 1..Len(lrows) |-> Row(lrows[n], 0)]
                ELSE [n \in 1..Len(rrows) |-> Row(0, rrows[n])]
        keys == {KeyOf(left, r) : r \in 1..Len(left.rows)}
                    \cup {KeyOf(right, r) : r \in 1..Len(right.rows)}
        Rows[S \in SUBSET keys] ==
            IF S = {} THEN << >>
            ELSE LET k == CHOOSE x \in S : \A y \in S : ~KeyLess(y, x)
                 IN  RowsOfKey(k) \o Rows[S \ {k}]
    IN  DataFrame(columns, Rows[keys], left.time_dtype)

----------------------------------------------------------------------------
(* ReconciliationEngine._generic_reconciliation *)

\* line 199: shape[1] differs, or not all(primary_df.columns == secondary_df.columns)
StructuresDiffer(primary_df, secondary_df) ==
    \/ Len(primary_df.columns) # Len(secondary_df.columns)
    \/ ~ \A i \in 1..Len(primary_df.columns) :
            primary_df.columns[i] = secondary_df.columns[i]

\* lines 204-206 with the secondary source first
FillGenericSecondaryFirst(primary_df, secondary_df) ==
    [primary_df EXCEPT !.rows =
        [r \in 1..Len(primary_df.rows) |->
            [i \in 1..Len(primary_df.columns) |->
                LET theirs == [k \in 1..Len(primary_df.rows) |->
                                  IF k <= Len(secondary_df.rows)
                                  THEN Series(secondary_df, primary_df.columns[i])[k]
                                  ELSE NaN]
                IN  combine_first(theirs, Series(primary_df, primary_df.columns[i]))[r]]]]

\* lines 204-206: result = primary_df.copy(); each column filled from secondary_df
FillGeneric(primary_df, secondary_df) ==
    [primary_df EXCEPT !.rows =
        [r \in 1..Len(primary_df.rows) |->
            [i \in 1..Len(primary_df.columns) |->
                combine_first(Series(primary_df, primary_df.columns[i]),
                              Series(secondary_df, primary_df.columns[i]))[r]]]]

\* line 201 returning the other source
UseSecondary(primary_df, secondary_df) == secondary_df

\* line 201
UsePrimary(primary_df, secondary_df) == primary_df

generic_reconciliation(fastf1, openf1, priority_source) ==
    LET primary_df == IF priority_source = "fastf1" THEN fastf1 ELSE openf1
        secondary_df == IF priority_source = "fastf1" THEN openf1 ELSE fastf1
    IN  IF ~IsFrame(primary_df) \/ ~IsFrame(secondary_df)
        THEN \* line 199 raises AttributeError, handled at lines 210-213
             [result |-> IF priority_source = "fastf1" THEN fastf1 ELSE openf1,
              path |-> "generic_except", caller_fastf1 |-> fastf1]
        ELSE IF StructuresDiffer(primary_df, secondary_df)
        THEN [result |-> UsePrimary(primary_df, secondary_df), path |-> "generic_differ",
              caller_fastf1 |-> fastf1]
        ELSE [result |-> FillGeneric(primary_df, secondary_df),
              path |-> "generic_merged", caller_fastf1 |-> fastf1]

----------------------------------------------------------------------------
(* ReconciliationEngine._reconcile_timing_data *)

\* what a step that raised leaves instead of a frame
Raised == [kind |-> "raised", columns |-> << >>, rows |-> << >>, time_dtype |-> "none"]

\* lines 77-78 and 80-81
NormaliseTime(df) ==
    IF ~HasColumn(df, <<"Time">>) /\ HasColumn(df, <<"time">>)
    THEN rename(df, [c \in {<<"time">>} |-> <<"Time">>])
    ELSE df

\* lines 107-110 with the other source first whatever the priority
PreferOther(merged, col, other, priority_source) ==
    IF priority_source = "fastf1"
    THEN combine_first(Series(merged, other), Series(merged, col))
    ELSE combine_first(Series(merged, col), Series(merged, other))

\* lines 107-110
Prefer(merged, col, other, priority_source) ==
    IF priority_source = "fastf1"
    THEN combine_first(Series(merged, col), Series(merged, other))
    ELSE combine_first(Series(merged, other), Series(merged, col))

\* lines 103-113: the loop runs over the labels merged had when it started
ResolveSuffixes(merged0, priority_source) ==
    LET cols == merged0.columns
        Loop[i \in 0..Len(cols)] ==
            IF i = 0 THEN merged0
            ELSE LET merged == Loop[i - 1]
                     col == cols[i]
                     base_col == replace(col, SuffixFastf1, << >>)
                     other == Append(base_col, SuffixOpenf1)
                 IN  IF ~IsFrame(merged) THEN merged
                     ELSE IF /\ endswith(col, SuffixFastf1)
                             /\ HasColumn(merged, replace(col, SuffixFastf1, <<SuffixOpenf1>>))
                     THEN IF ~HasColumn(merged, col) \/ ~HasColumn(merged, other)
                          THEN Raised  \* KeyError at line 108 or 110
                          ELSE DropColumns(
                                   SetColumn(merged, base_col,
                                             Prefer(merged, col, other, priority_source)),
                                   {col, other})
                     ELSE merged
    IN  Loop[Len(cols)]

\* line 88
merge_cols(fastf1, openf1) ==
    SelectSeq(<< <<"Time">>, <<"driver_number">> >>,
              LAMBDA col : HasColumn(fastf1, col) /\ HasColumn(openf1, col))

\* pd.merge raises ValueError on a key that is a timedelta on one side only
MergeRaises(left, right, on) ==
    <<"Time">> \in Range(on) /\ left.time_dtype # right.time_dtype

\* lines 94-100 as an inner join
TimingMergeInner(fastf1, openf1, on) ==
    merge(fastf1, openf1, on, "inner", SuffixFastf1, SuffixOpenf1)

\* lines 94-100
TimingMerge(fastf1, openf1, on) ==
    merge(fastf1, openf1, on, "outer", SuffixFastf1, SuffixOpenf1)

reconcile_timing_data(fastf1, openf1, priority_source) ==
    LET Pick(f, o) == IF priority_source = "fastf1" THEN f ELSE o
    IN  IF ~IsFrame(fastf1)
        THEN \* line 77 raises AttributeError
             [result |-> Pick(fastf1, openf1), path |-> "timing_except",
              caller_fastf1 |-> fastf1]
        ELSE
        LET renamed == NormaliseTime(fastf1)
        IN  IF ~IsFrame(openf1)
            THEN \* line 80 raises AttributeError
                 [result |-> Pick(renamed, openf1), path |-> "timing_except",
                  caller_fastf1 |-> fastf1]
            ELSE
            LET openf1_data_1 == NormaliseTime(openf1)
                derive == /\ HasColumn(renamed, <<"DriverNumber">>)
                          /\ HasColumn(openf1_data_1, <<"driver_number">>)
                \* line 85 writes into the object the local names
                fastf1_data_1 ==
                    IF derive
                    THEN SetColumn(renamed, <<"driver_number">>,
                                   Series(renamed, <<"DriverNumber">>))
                    ELSE renamed
                \* that object is the caller's unless line 78 rebound the local
                caller == IF renamed = fastf1 THEN fastf1_data_1 ELSE fastf1
                on == merge_cols(fastf1_data_1, openf1_data_1)
                merged == ResolveSuffixes(TimingMerge(fastf1_data_1, openf1_data_1, on),
                                          priority_source)
            IN  IF on = << >>
                THEN [result |-> Pick(fastf1_data_1, openf1_data_1),
                      path |-> "timing_no_key", caller_fastf1 |-> caller]
                ELSE IF MergeRaises(fastf1_data_1, openf1_data_1, on) \/ ~IsFrame(merged)
                THEN [result |-> Pick(fastf1_data_1, openf1_data_1),
                      path |-> "timing_except", caller_fastf1 |-> caller]
                ELSE [result |-> merged, path |-> "timing_merged",
                      caller_fastf1 |-> caller]

----------------------------------------------------------------------------
(* ReconciliationEngine._reconcile_telemetry_data *)

\* line 172: pd.Timedelta('0.1s'), in the unit telemetry times are counted in
Tolerance == 1

\* lines 129-136 and 138-145
fastf1_mapping ==
    [c \in {<<"Speed">>, <<"RPM">>, <<"Throttle">>, <<"Brake">>, <<"DRS">>, <<"Time">>} |->
        CASE c = <<"Speed">> -> <<"speed">>
          [] c = <<"RPM">> -> <<"rpm">>
          [] c = <<"Throttle">> -> <<"throttle">>
          [] c = <<"Brake">> -> <<"brake">>
          [] c = <<"DRS">> -> <<"drs">>
          [] c = <<"Time">> -> <<"time">>]

openf1_mapping ==
    [c \in {<<"speed">>, <<"rpm">>, <<"throttle">>, <<"brake">>, <<"drs">>, <<"time">>} |-> c]

Min(a, b) == IF b < a THEN b ELSE a

\* Series.min() and Series.max() of a series that is not empty
SeriesMin(s) == CHOOSE m \in Range(s) : \A x \in Range(s) : m <= x
SeriesMax(s) == CHOOSE m \in Range(s) : \A x \in Range(s) : m >= x

\* lines 152-153
min_time(a, b) == Max(SeriesMin(Series(a, <<"time">>)), SeriesMin(Series(b, <<"time">>)))
max_time(a, b) == Min(SeriesMax(Series(a, <<"time">>)), SeriesMax(Series(b, <<"time">>)))

\* lines 156-157 without the filter
KeepAll(df, lo, hi) == df

\* lines 156-157: df[mask] keeps the rows that pass, in order
FilterWindow(df, lo, hi) ==
    LET t == ColIndex(df, <<"time">>)
    IN  [df EXCEPT !.rows = SelectSeq(df.rows, LAMBDA row : row[t] >= lo /\ row[t] <= hi)]

\* df.sort_values('time'): ascending, rows of equal time in their old order
sort_values(df) ==
    LET t == ColIndex(df, <<"time">>)
        n == Len(df.rows)
        Before(i, j) ==
            \/ df.rows[i][t] < df.rows[j][t]
            \/ df.rows[i][t] = df.rows[j][t] /\ i < j
        Rank(i) == 1 + Cardinality({j \in 1..n : Before(j, i)})
    IN  [df EXCEPT !.rows =
            [k \in 1..n |-> df.rows[CHOOSE i \in 1..n : Rank(i) = k]]]

\* the row of right that direction='nearest' pairs with time t, 0 for none:
\* the last row not after t and the first row not before t are looked up,
\* each dropped when farther than the tolerance; the nearer one is taken,
\* the earlier one on a tie
NearestAnyDistance(right, t, tolerance) ==
    LET rt == Series(right, <<"time">>)
        dist(j) == IF rt[j] >= t THEN rt[j] - t ELSE t - rt[j]
    IN  IF rt = << >> THEN 0
        ELSE CHOOSE j \in DOMAIN rt :
                \A i \in DOMAIN rt : dist(j) < dist(i) \/ (dist(j) = dist(i) /\ j <= i)

Nearest(right, t, tolerance) ==
    LET rt == Series(right, <<"time">>)
        back == {j \in DOMAIN rt : rt[j] <= t}
        forw == {j \in DOMAIN rt : rt[j] >= t}
        b0 == IF back = {} THEN 0 ELSE CHOOSE j \in back : \A i \in back : i <= j
        f0 == IF forw = {} THEN 0 ELSE CHOOSE j \in forw : \A i \in forw : j <= i
        b == IF b0 # 0 /\ t - rt[b0] > tolerance THEN 0 ELSE b0
        f == IF f0 # 0 /\ rt[f0] - t > tolerance THEN 0 ELSE f0
    IN  IF b # 0 /\ f # 0
        THEN IF t - rt[b] <= rt[f] - t THEN b ELSE f
        ELSE IF b # 0 THEN b ELSE f

\* pd.merge_asof(left, right, on='time', tolerance=tolerance,
\* direction='nearest', suffixes=('', '_secondary')) on frames sorted by time:
\* one row per row of left, in left's order
merge_asof(left, right, tolerance) ==
    LET rpos == KeptPositions(right.columns, {<<"time">>})
        overlap == (Range(left.columns) \cap Range(right.columns)) \ {<<"time">>}
        t == ColIndex(left, <<"time">>)
        columns ==
            left.columns
            \o [i \in 1..Len(rpos) |->
                   IF right.columns[rpos[i]] \in overlap
                   THEN Append(right.columns[rpos[i]], SuffixSecondary)
                   ELSE right.columns[rpos[i]]]
        Row(l) ==
            LET r == Nearest(right, left.rows[l][t], tolerance)
            IN  left.rows[l]
                \o [i \in 1..Len(rpos) |-> IF r # 0 THEN right.rows[r][rpos[i]] ELSE NaN]
    IN  DataFrame(columns, [l \in 1..Len(left.rows) |-> Row(l)], left.time_dtype)

\* lines 168-175 as an outer join on time
TelemetryMergeOuter(base_data, secondary_data) ==
    merge(sort_values(base_data), sort_values(secondary_data), << <<"time">> >>,
          "outer", "", SuffixSecondary)

\* lines 168-175
TelemetryMerge(base_data, secondary_data) ==
    merge_asof(sort_values(base_data), sort_values(secondary_data), Tolerance)

\* lines 178-181
FillFromSecondary(merged0, base_data, secondary_data) ==
    LET cols == SelectSeq(secondary_data.columns, LAMBDA c : c # <<"time">>)
        Loop[i \in 0..Len(cols)] ==
            IF i = 0 THEN merged0
            ELSE LET merged == Loop[i - 1]
                     col == cols[i]
                     col_secondary == Append(col, SuffixSecondary)
                 IN  IF HasColumn(base_data, col) /\ HasColumn(merged, col_secondary)
                     THEN DropColumns(
                              SetColumn(merged, col,
                                        combine_first(Series(merged, col),
                                                      Series(merged, col_secondary))),
                              {col_secondary})
                     ELSE merged
    IN  Loop[Len(cols)]

\* merge_asof raises MergeError when the tolerance is a Timedelta and the
\* key is not a timedelta
MergeAsofRaises(left, right) == left.time_dtype # "timedelta64"

reconcile_telemetry_data(fastf1, openf1, priority_source) ==
    LET fallback ==
            [result |-> IF priority_source = "fastf1" THEN fastf1 ELSE openf1,
             path |-> "telemetry_except", caller_fastf1 |-> fastf1]
    IN  IF ~IsFrame(fastf1) \/ ~IsFrame(openf1)
        THEN fallback  \* lines 148-149 raise AttributeError
        ELSE
        LET fastf1_renamed == rename(fastf1, fastf1_mapping)
            openf1_renamed == rename(openf1, openf1_mapping)
        IN  IF \/ ~HasColumn(fastf1_renamed, <<"time">>)
               \/ ~HasColumn(openf1_renamed, <<"time">>)
            THEN fallback  \* line 152 raises KeyError
            ELSE IF fastf1_renamed.time_dtype # openf1_renamed.time_dtype
            THEN fallback  \* line 152 raises TypeError comparing a Timedelta with a float
            ELSE
            LET lo == min_time(fastf1_renamed, openf1_renamed)
                hi == max_time(fastf1_renamed, openf1_renamed)
                fastf1_filtered == FilterWindow(fastf1_renamed, lo, hi)
                openf1_filtered == FilterWindow(openf1_renamed, lo, hi)
                base_data == IF priority_source = "fastf1"
                             THEN fastf1_filtered ELSE openf1_filtered
                secondary_data == IF priority_source = "fastf1"
                                  THEN openf1_filtered ELSE fastf1_filtered
            IN  IF MergeAsofRaises(base_data, secondary_data)
                THEN fallback
                ELSE [result |-> FillFromSecondary(
                                     TelemetryMerge(base_data, secondary_data),
                                     base_data, secondary_data),
                      path |-> "telemetry_merged", caller_fastf1 |-> fastf1]

----------------------------------------------------------------------------
(* ReconciliationEngine.reconcile_session_data *)

\* config/settings.py, bound to self.priority_map at line 34
RECONCILIATION_PRIORITY ==
    [live_timing |-> "openf1", telemetry |-> "fastf1", default |-> "fastf1"]

\* line 61: self.priority_map.get(data_type, self.priority_map['default'])
priority_source(dt) ==
    IF dt \in DOMAIN RECONCILIATION_PRIORITY
    THEN RECONCILIATION_PRIORITY[dt]
    ELSE RECONCILIATION_PRIORITY["default"]

\* lines 65-71
Dispatch(fastf1, openf1, dt) ==
    IF dt = "timing"
    THEN reconcile_timing_data(fastf1, openf1, priority_source(dt))
    ELSE IF dt = "telemetry"
    THEN reconcile_telemetry_data(fastf1, openf1, priority_source(dt))
    ELSE generic_reconciliation(fastf1, openf1, priority_source(dt))

\* lines 48-71 without the checks of lines 52-58
reconcile_session_data_unguarded(fastf1, openf1, dt) ==
    IF fastf1 = None /\ openf1 = None
    THEN [result |-> None, path |-> "no_data", caller_fastf1 |-> fastf1]
    ELSE Dispatch(fastf1, openf1, dt)

reconcile_session_data(fastf1, openf1, dt) ==
    IF fastf1 = None /\ openf1 = None
    THEN [result |-> None, path |-> "no_data", caller_fastf1 |-> fastf1]
    ELSE IF fastf1 = None
    THEN [result |-> openf1, path |-> "openf1_only", caller_fastf1 |-> fastf1]
    ELSE IF openf1 = None
    THEN [result |-> fastf1, path |-> "fastf1_only", caller_fastf1 |-> fastf1]
    ELSE Dispatch(fastf1, openf1, dt)

\* one call of reconcile_session_data on the caller's two objects
Reconcile ==
    /\ UNCHANGED nonReconcileVars
    /\ rc_pc = "ready"
    /\ LET out == reconcile_session_data(fastf1_data, openf1_data, data_type)
       IN  /\ rc_result' = out.result
           /\ rc_path' = out.path
           /\ fastf1_data' = out.caller_fastf1
    /\ rc_pc' = "returned"
    /\ UNCHANGED <<data_type, openf1_data, fastf1_arg, openf1_arg>>

ReconcileStep == Reconcile

\* no call of the engine
ReconcileIdle ==
    /\ data_type = "none"
    /\ fastf1_data = None
    /\ openf1_data = None
    /\ fastf1_arg = None
    /\ openf1_arg = None
    /\ rc_pc = "off"
    /\ rc_result = None
    /\ rc_path = "none"

\* a caller about to reconcile one pair of inputs of one data type
ReconcileInit(types, inputs) ==
    /\ data_type \in types
    /\ \E p \in inputs :
        /\ fastf1_data = p[1]
        /\ openf1_data = p[2]
        /\ fastf1_arg = p[1]
        /\ openf1_arg = p[2]
    /\ rc_pc = "ready"
    /\ rc_result = None
    /\ rc_path = "none"

----------------------------------------------------------------------------
(* The inputs the engine is run on *)

\* timing times are 1..MaxTimingTime, telemetry times 0..MaxTelemetryTime
MaxTimingTime == 2
MaxTelemetryTime == 3

TimeLabels == {<<"Time">>, <<"time">>}
DriverLabels == {<<"DriverNumber">>, <<"driver_number">>}
DriverNumbers == {1, 44}

\* what a source reports in a field that is neither a time nor a driver
FieldValue(source) == IF source = "fastf1" THEN 582 ELSE 585

CellValues(col, source, times) ==
    IF col \in TimeLabels THEN times
    ELSE IF col \in DriverLabels THEN DriverNumbers
    ELSE {NaN, FieldValue(source)}

RowsOver(cols, source, times) ==
    {row \in [1..Len(cols) -> times \cup DriverNumbers \cup {NaN, FieldValue(source)}] :
        \A i \in 1..Len(cols) : row[i] \in CellValues(cols[i], source, times)}

\* the frames of one source over the given column lists, row counts and dtypes
Frames(colsets, source, counts, dtypes, times) ==
    UNION {{DataFrame(cols, rows, dt) :
                rows \in UNION {[1..n -> RowsOver(cols, source, times)] : n \in counts},
                dt \in dtypes}
           : cols \in colsets}

TimeDtypes == {"timedelta64", "float64"}

TimingInputs ==
    LET times == 1..MaxTimingTime
        F(colsets, dtypes) == Frames(colsets, "fastf1", {1, 2}, dtypes, times)
        O(colsets, dtypes) == Frames(colsets, "openf1", {1, 2}, dtypes, times)
    IN  (F({<< <<"Time">>, <<"lap">> >>, << <<"time">>, <<"lap">> >>}, TimeDtypes)
            \X O({<< <<"time">>, <<"lap">> >>, << <<"Time">>, <<"pos">> >>}, {"timedelta64"}))
        \cup
        (F({<< <<"DriverNumber">>, <<"lap">> >>, << <<"lap">>, <<"driver_number">> >>},
           {"timedelta64"})
            \X O({<< <<"driver_number">>, <<"lap">> >>, << <<"lap">> >>}, {"timedelta64"}))
        \cup
        (F({<< <<"Time">>, <<"DriverNumber">>, <<"lap">> >>}, {"timedelta64"})
            \X O({<< <<"time">>, <<"driver_number">>, <<"lap">> >>}, {"timedelta64"}))

TelemetryInputs ==
    LET times == 0..MaxTelemetryTime
        F(colsets, counts, dtypes) == Frames(colsets, "fastf1", counts, dtypes, times)
        O(colsets, counts, dtypes) == Frames(colsets, "openf1", counts, dtypes, times)
    IN  (F({<< <<"Time">>, <<"Speed">> >>}, {1, 2, 3}, {"timedelta64"})
            \X (O({<< <<"time">>, <<"speed">> >>}, {1, 2}, {"timedelta64"})
                    \cup O({<< <<"time">>, <<"rpm">> >>}, {1}, {"timedelta64"})))
        \cup
        (F({<< <<"Time">>, <<"Speed">> >>, << <<"Speed">> >>}, {1}, TimeDtypes)
            \X O({<< <<"time">>, <<"speed">> >>, << <<"date">>, <<"speed">> >>},
                 {1}, TimeDtypes))

GenericColumns ==
    {<< <<"x">>, <<"y">> >>, << <<"y">>, <<"x">> >>, << <<"x">>, <<"z">> >>,
     << <<"x">>, <<"y">>, <<"z">> >>}

GenericInputs ==
    Frames(GenericColumns, "fastf1", {1, 2}, {"float64"}, {})
        \X Frames(GenericColumns, "openf1", {1, 2}, {"float64"}, {})

\* one-row frames of every data type, None, and an object that is no frame
AnyInputs ==
    LET times == 1..MaxTimingTime
        F == Frames({<< <<"time">>, <<"lap">> >>, << <<"Time">>, <<"lap">> >>,
                     << <<"DriverNumber">>, <<"lap">> >>, << <<"Time">>, <<"Speed">> >>,
                     << <<"Speed">> >>, << <<"x">>, <<"y">> >>},
                    "fastf1", {1}, TimeDtypes, times)
        O == Frames({<< <<"time">>, <<"lap">> >>, << <<"Time">>, <<"lap">> >>,
                     << <<"driver_number">>, <<"lap">> >>, << <<"time">>, <<"speed">> >>,
                     << <<"x">>, <<"y">> >>, << <<"y">>, <<"x">> >>},
                    "openf1", {1}, TimeDtypes, times)
    IN  (F \cup {None, JsonList}) \X (O \cup {None, JsonList})

----------------------------------------------------------------------------
(* ReconciliationEngine.reconcile_full_session *)

\* line 229
data_types == <<"timing", "telemetry", "weather", "car_data", "position">>

\* a Python dict from data types to data
Dict(items) == [kind |-> "dict", items |-> items]

EmptyDict == Dict([dt \in {} |-> None])

\* d[dt] = value
DictSet(d, dt, value) ==
    Dict([k \in DOMAIN d.items \cup {dt} |-> IF k = dt THEN value ELSE d.items[k]])

\* the truth value of a session argument: None and the empty dict are false
Truthy(session) == session.kind = "dict" /\ DOMAIN session.items # {}

\* lines 232-233: session.get(data_type) if session else None
SessionGet(session, dt) ==
    IF Truthy(session) /\ dt \in DOMAIN session.items
    THEN session.items[dt]
    ELSE None

\* mutant: the result is stored whether it is None or not
FullSessionIterStoresNone ==
    /\ UNCHANGED <<ledgerVars, retryVars, throttleVars, reconcileVars,
                   callerVars, peerVars, collectVars>>
    /\ fs_pc = "loop"
    /\ fs_i <= Len(data_types)
    /\ LET dt == data_types[fs_i]
           fastf1 == SessionGet(fastf1_session, dt)
           openf1 == SessionGet(openf1_session, dt)
           out == reconcile_session_data(fastf1, openf1, dt)
       IN  /\ reconciled_data' = DictSet(reconciled_data, dt, out.result)
           /\ fastf1_session' = IF out.caller_fastf1 = fastf1
                                THEN fastf1_session
                                ELSE DictSet(fastf1_session, dt, out.caller_fastf1)
           /\ fs_calls' = Append(fs_calls, [data_type |-> dt, fastf1_data |-> fastf1,
                                            openf1_data |-> openf1])
    /\ fs_i' = fs_i + 1
    /\ UNCHANGED <<fastf1_given, openf1_session, fs_pc>>

\* lines 231-237: one iteration of the loop over data_types; the timing
\* strategy may assign into the FastF1 frame, which is the session's own object
FullSessionIter ==
    /\ UNCHANGED <<ledgerVars, retryVars, throttleVars, reconcileVars,
                   callerVars, peerVars, collectVars>>
    /\ fs_pc = "loop"
    /\ fs_i <= Len(data_types)
    /\ LET dt == data_types[fs_i]
           fastf1 == SessionGet(fastf1_session, dt)
           openf1 == SessionGet(openf1_session, dt)
           out == reconcile_session_data(fastf1, openf1, dt)
       IN  /\ reconciled_data' = IF out.result # None
                                 THEN DictSet(reconciled_data, dt, out.result)
                                 ELSE reconciled_data
           /\ fastf1_session' = IF out.caller_fastf1 = fastf1
                                THEN fastf1_session
                                ELSE DictSet(fastf1_session, dt, out.caller_fastf1)
           /\ fs_calls' = Append(fs_calls, [data_type |-> dt, fastf1_data |-> fastf1,
                                            openf1_data |-> openf1])
    /\ fs_i' = fs_i + 1
    /\ UNCHANGED <<fastf1_given, openf1_session, fs_pc>>

\* line 239: return reconciled_data
FullSessionReturn ==
    /\ UNCHANGED <<ledgerVars, retryVars, throttleVars, reconcileVars,
                   callerVars, peerVars, collectVars>>
    /\ fs_pc = "loop"
    /\ fs_i > Len(data_types)
    /\ fs_pc' = "returned"
    /\ UNCHANGED <<fastf1_session, fastf1_given, openf1_session, fs_i,
                   reconciled_data, fs_calls>>

SessionStep ==
    \/ FullSessionIter
    \/ FullSessionReturn

\* no call of reconcile_full_session
SessionIdle ==
    /\ fastf1_session = None
    /\ fastf1_given = None
    /\ openf1_session = None
    /\ fs_pc = "off"
    /\ fs_i = 0
    /\ reconciled_data = EmptyDict
    /\ fs_calls = << >>

\* line 226: a call of reconcile_full_session on two sessions
SessionInit(sessions) ==
    /\ \E p \in sessions :
        /\ fastf1_session = p[1]
        /\ fastf1_given = p[1]
        /\ openf1_session = p[2]
    /\ fs_pc = "loop"
    /\ fs_i = 1
    /\ reconciled_data = EmptyDict
    /\ fs_calls = << >>

\* what a source holds for a data type: one row of the frame it reports
SessionData(source, dt) ==
    IF dt = "timing"
    THEN IF source = "fastf1"
         THEN DataFrame(<< <<"Time">>, <<"DriverNumber">>, <<"lap">> >>,
                        << <<1, 44, FieldValue(source)>> >>, "timedelta64")
         ELSE DataFrame(<< <<"time">>, <<"driver_number">>, <<"lap">> >>,
                        << <<1, 44, FieldValue(source)>> >>, "timedelta64")
    ELSE IF dt = "telemetry"
    THEN IF source = "fastf1"
         THEN DataFrame(<< <<"Time">>, <<"Speed">> >>, << <<1, NaN>> >>, "timedelta64")
         ELSE DataFrame(<< <<"time">>, <<"speed">> >>,
                        << <<1, FieldValue(source)>> >>, "timedelta64")
    ELSE IF source = "fastf1"
         THEN DataFrame(<< <<"x">>, <<"y">> >>, << <<FieldValue(source), NaN>> >>, "float64")
         ELSE DataFrame(<< <<"x">>, <<"y">> >>, << <<NaN, FieldValue(source)>> >>, "float64")

\* the data types for which a source's session, when it has the key, holds None
NullEntries(source) ==
    IF source = "fastf1" THEN {"weather"} ELSE {"weather", "position"}

\* the sessions of one source: None, the empty dict, and the dicts over every
\* non-empty set of data types
Sessions(source) ==
    {None, EmptyDict} \cup
    {Dict([dt \in S |-> IF dt \in NullEntries(source) THEN None
                        ELSE SessionData(source, dt)]) :
        S \in SUBSET Range(data_types) \ {{}}}

SessionInputs == Sessions("fastf1") \X Sessions("openf1")

----------------------------------------------------------------------------
(* ProgressTracker.get_all_completed and its caller *)

\* the caller holds no object yet
NoObject == "none"

\* the set a caller's object holds: get_all_completed hands out the
\* ProgressTracker's own set, so its contents are self.completed_items
Contents(obj) == IF obj = "self.completed_items" THEN completed_items ELSE {}

\* line 63: return self.completed_items (one call by one caller is followed)
GetAllCompleted ==
    /\ UNCHANGED <<ledgerVars, retryVars, throttleVars, reconcileVars,
                   sessionVars, peerVars, collectVars>>
    /\ init_pc = "ready"
    /\ caller_pc = "none"
    /\ all_completed' = "self.completed_items"
    /\ at_call' = completed_items
    /\ caller_pc' = "got"

\* the caller adds a key to the set it was given (its first change is followed)
CallerAdds(k) ==
    /\ UNCHANGED <<retryVars, throttleVars, reconcileVars, sessionVars, peerVars,
                   collectVars>>
    /\ all_completed = "self.completed_items"
    /\ caller_pc = "got"
    /\ k \notin Contents(all_completed)
    /\ completed_items' = completed_items \cup {k}
    /\ caller_pc' = "changed"
    /\ UNCHANGED <<store_exists, store, init_pc, pc, item_key, buffer, outcome,
                   prev, appended, crashes, ncalls, all_completed, at_call>>

\* the caller discards a key from the set it was given
CallerDiscards(k) ==
    /\ UNCHANGED <<retryVars, throttleVars, reconcileVars, sessionVars, peerVars,
                   collectVars>>
    /\ all_completed = "self.completed_items"
    /\ caller_pc = "got"
    /\ k \in Contents(all_completed)
    /\ completed_items' = completed_items \ {k}
    /\ caller_pc' = "changed"
    /\ UNCHANGED <<store_exists, store, init_pc, pc, item_key, buffer, outcome,
                   prev, appended, crashes, ncalls, all_completed, at_call>>

CallerChanges == \E k \in Keys : CallerAdds(k) \/ CallerDiscards(k)

CallerIdle ==
    /\ all_completed = NoObject
    /\ at_call = {}
    /\ caller_pc = "none"

----------------------------------------------------------------------------
(* A second ProgressTracker on the same log file *)

\* line 22: if self.log_file_path.exists()
PeerLoadCheck ==
    /\ UNCHANGED <<ledgerVars, retryVars, throttleVars, reconcileVars,
                   sessionVars, callerVars, collectVars>>
    /\ peer_pc = "new"
    /\ peer_pc' = IF store_exists THEN "read" ELSE "create"
    /\ UNCHANGED <<peer_items, peer_key>>

\* lines 23-24
PeerLoadRead ==
    /\ UNCHANGED <<ledgerVars, retryVars, throttleVars, reconcileVars,
                   sessionVars, callerVars, collectVars>>
    /\ peer_pc = "read"
    /\ peer_items' = LoadedSet(store)
    /\ peer_pc' = "ready"
    /\ UNCHANGED peer_key

\* lines 27-30: open(..., 'w') creates the file, or truncates the file that
\* has appeared since line 22
PeerLoadCreate ==
    /\ UNCHANGED <<retryVars, throttleVars, reconcileVars, sessionVars,
                   callerVars, collectVars>>
    /\ peer_pc = "create"
    /\ store_exists' = TRUE
    /\ store' = << >>
    /\ peer_pc' = "ready"
    /\ UNCHANGED <<init_pc, completed_items, pc, item_key, buffer, outcome, prev,
                   appended, crashes, ncalls, peer_items, peer_key>>

\* lines 51-54: the second instance's mark_completed(k), from its membership
\* test to the insertion into its own set
PeerMark(k) ==
    /\ UNCHANGED <<retryVars, throttleVars, reconcileVars, sessionVars,
                   callerVars, collectVars>>
    /\ peer_pc = "ready"
    /\ ncalls < MaxCalls
    /\ ncalls' = ncalls + 1
    /\ peer_key' = k
    /\ IF k \notin peer_items
       THEN /\ store_exists' = TRUE
            /\ store' = store \o Record(k)
            /\ appended' = [appended EXCEPT ![k] = @ + 1]
            /\ peer_items' = peer_items \cup {k}
       ELSE UNCHANGED <<store_exists, store, appended, peer_items>>
    /\ UNCHANGED <<init_pc, completed_items, pc, item_key, buffer, outcome, prev,
                   crashes, peer_pc>>

PeerStep ==
    \/ PeerLoadCheck
    \/ PeerLoadRead
    \/ PeerLoadCreate
    \/ \E k \in Keys : PeerMark(k)

\* no second instance
PeerIdle ==
    /\ peer_pc = "off"
    /\ peer_items = {}
    /\ peer_key = NoKey

\* a second instance about to be constructed
PeerInit ==
    /\ peer_pc = "new"
    /\ peer_items = {}
    /\ peer_key = NoKey

----------------------------------------------------------------------------
(* FastF1Collector.collect_session and OpenF1Collector.get_live_session_data *)
(* The two methods have one shape: build the key, return at once when the   *)
(* ledger has it, else call the fetch wrapped by apply_rate_limiting, mark  *)
(* the key and return the data; any Exception is logged and None returned.  *)
(* OpenF1's fetch is also wrapped by throttle_requests, which only delays   *)
(* it, and its key is marked only when the data is not empty.               *)

Collectors == {"fastf1", "openf1"}

\* what the wrapped fetch can return: a loaded Session (fastf1_collector.py
\* line 60), or the parsed JSON body, which may be an empty list
\* (openf1_collector.py line 57)
FetchedData(c) == IF c = "fastf1" THEN {"data"} ELSE {"empty", "data"}

NoEntry == [store |-> << >>, items |-> {}, rl_calls |-> 0]

\* the collector is called; the key is built from the arguments
\* (fastf1_collector.py line 96, openf1_collector.py line 95)
Collect(c, k) ==
    /\ UNCHANGED <<ledgerVars, retryVars, throttleVars, reconcileVars,
                   sessionVars, callerVars, peerVars>>
    /\ init_pc = "ready"
    /\ col_pc \in {"idle", "returned"}
    /\ ncollects < MaxCollects
    /\ ncollects' = ncollects + 1
    /\ collector' = c
    /\ col_key' = k
    /\ col_pc' = "check"
    /\ col_data' = "none"
    /\ col_result' = "none"
    /\ col_prev' = [store |-> store, items |-> completed_items, rl_calls |-> rl_calls]

\* mutant: the ledger is not asked; the fetch is always made
CollectCheckNeverSkips ==
    /\ UNCHANGED <<ledgerVars, throttleVars, reconcileVars, sessionVars,
                   callerVars, peerVars>>
    /\ col_pc = "check"
    /\ EnterWrapper
    /\ col_pc' = "fetch"
    /\ UNCHANGED <<collector, col_key, col_data, col_result, col_prev, ncollects>>

\* mutant: the key is marked before the fetch is made
CollectCheckMarksFirst ==
    /\ UNCHANGED <<throttleVars, reconcileVars, sessionVars, callerVars, peerVars>>
    /\ col_pc = "check"
    /\ IF is_completed(col_key)
       THEN /\ col_pc' = "returned"
            /\ col_result' = "None"
            /\ UNCHANGED <<ledgerVars, retryVars>>
       ELSE /\ EnterWrapper
            /\ col_pc' = "fetch"
            /\ store_exists' = TRUE
            /\ store' = store \o Record(col_key)
            /\ appended' = [appended EXCEPT ![col_key] = @ + 1]
            /\ completed_items' = completed_items \cup {col_key}
            /\ UNCHANGED <<init_pc, pc, item_key, buffer, outcome, prev, crashes,
                           ncalls, col_result>>
    /\ UNCHANGED <<collector, col_key, col_data, col_prev, ncollects>>

\* fastf1_collector.py lines 98-105, openf1_collector.py lines 95-102:
\* if is_completed(key) the call returns None; else the wrapped fetch is called
CollectCheck ==
    /\ UNCHANGED <<ledgerVars, throttleVars, reconcileVars, sessionVars,
                   callerVars, peerVars>>
    /\ col_pc = "check"
    /\ IF is_completed(col_key)
       THEN /\ col_pc' = "returned"
            /\ col_result' = "None"
            /\ UNCHANGED retryVars
       ELSE /\ EnterWrapper
            /\ col_pc' = "fetch"
            /\ UNCHANGED col_result
    /\ UNCHANGED <<collector, col_key, col_data, col_prev, ncollects>>

\* the wrapped fetch returned: fastf1_collector.py line 106 calls
\* mark_completed(key); openf1_collector.py lines 103-105 call it when the
\* data is not empty, and line 106 returns the empty data as it is
CollectFetched ==
    /\ UNCHANGED <<retryVars, throttleVars, reconcileVars, sessionVars,
                   callerVars, peerVars>>
    /\ col_pc = "fetch"
    /\ rl_pc = "returned"
    /\ \E d \in FetchedData(collector) :
        /\ col_data' = d
        /\ IF collector = "fastf1" \/ d # "empty"
           THEN /\ EnterMarkCompleted(1, col_key)
                /\ col_pc' = "mark"
                /\ UNCHANGED col_result
           ELSE /\ col_pc' = "returned"
                /\ col_result' = d
                /\ UNCHANGED ledgerVars
    /\ UNCHANGED <<collector, col_key, col_prev, ncollects>>

\* mutant: the except branch marks the key before it returns None
CollectFetchRaisedMarks ==
    /\ UNCHANGED <<retryVars, throttleVars, reconcileVars, sessionVars,
                   callerVars, peerVars>>
    /\ col_pc = "fetch"
    /\ rl_pc = "raised"
    /\ EnterMarkCompleted(1, col_key)
    /\ col_pc' = "mark"
    /\ UNCHANGED <<collector, col_key, col_data, col_result, col_prev, ncollects>>

\* the wrapped fetch raised: the except branch (fastf1_collector.py lines
\* 110-112, openf1_collector.py lines 108-112) logs and returns None
CollectFetchRaised ==
    /\ UNCHANGED <<ledgerVars, retryVars, throttleVars, reconcileVars,
                   sessionVars, callerVars, peerVars>>
    /\ col_pc = "fetch"
    /\ rl_pc = "raised"
    /\ col_pc' = "returned"
    /\ col_result' = "None"
    /\ UNCHANGED <<collector, col_key, col_data, col_prev, ncollects>>

\* mark_completed returned: the data is returned (fastf1_collector.py line
\* 108, openf1_collector.py line 106)
CollectMarked ==
    /\ UNCHANGED <<ledgerVars, retryVars, throttleVars, reconcileVars,
                   sessionVars, callerVars, peerVars>>
    /\ col_pc = "mark"
    /\ pc[1] = "idle"
    /\ outcome[1] = "returned"
    /\ col_pc' = "returned"
    /\ col_result' = col_data
    /\ UNCHANGED <<collector, col_key, col_data, col_prev, ncollects>>

\* mark_completed raised: the OSError is caught by the same except branch
CollectMarkRaised ==
    /\ UNCHANGED <<ledgerVars, retryVars, throttleVars, reconcileVars,
                   sessionVars, callerVars, peerVars>>
    /\ col_pc = "mark"
    /\ pc[1] = "idle"
    /\ outcome[1] = "raised"
    /\ col_pc' = "returned"
    /\ col_result' = "None"
    /\ UNCHANGED <<collector, col_key, col_data, col_prev, ncollects>>

\* the call is cancelled while the wrapper sleeps (rate_limiter.py line 45):
\* time.sleep raises KeyboardInterrupt, which is no Exception, so neither
\* rate_limiter.py line 29 nor the collector's except branch catches it
CancelSleep ==
    /\ UNCHANGED <<ledgerVars, throttleVars, reconcileVars, sessionVars,
                   callerVars, peerVars>>
    /\ col_pc = "fetch"
    /\ rl_pc = "sleep"
    /\ rl_pc' = "interrupted"
    /\ col_pc' = "interrupted"
    /\ UNCHANGED <<attempt, caught, delay, rl_result, history, slept, rl_calls>>
    /\ UNCHANGED <<collector, col_key, col_data, col_result, col_prev, ncollects>>

CollectStep ==
    \/ \E c \in Collectors, k \in Keys : Collect(c, k)
    \/ CollectCheck
    \/ CollectFetched
    \/ CollectFetchRaised
    \/ CollectMarked
    \/ CollectMarkRaised
    \/ CancelSleep

\* no collector
CollectIdle ==
    /\ collector = "none"
    /\ col_pc = "off"
    /\ col_key = NoKey
    /\ col_data = "none"
    /\ col_result = "none"
    /\ col_prev = NoEntry
    /\ ncollects = 0

\* a collector that has not been called yet
CollectInit ==
    /\ collector = "none"
    /\ col_pc = "idle"
    /\ col_key = NoKey
    /\ col_data = "none"
    /\ col_result = "none"
    /\ col_prev = NoEntry
    /\ ncollects = 0

\* none of the components around the ledger, the wrappers and the engine is used
ClientsIdle == SessionIdle /\ CallerIdle /\ PeerIdle /\ CollectIdle

----------------------------------------------------------------------------
(* Specifications *)

LedgerStep ==
    \/ LoadCheck
    \/ LoadRead
    \/ LoadCreate
    \/ \E w \in Workers, k \in Keys : Call(w, k)
    \/ \E w \in Workers : Check(w)
    \/ \E w \in Workers : Open(w)
    \/ \E w \in Workers : OpenFails(w)
    \/ \E w \in Workers : Write(w)
    \/ \E w \in Workers : Close(w)
    \/ \E w \in Workers : CloseFails(w)
    \/ \E w \in Workers : Add(w)
    \/ Crash

LedgerInit(n) ==
    /\ store_exists = FALSE
    /\ store = << >>
    /\ init_pc = "new"
    /\ completed_items = {}
    /\ pc = [w \in Workers |-> IF w <= n THEN "idle" ELSE "off"]
    /\ item_key = [w \in Workers |-> NoKey]
    /\ buffer = [w \in Workers |-> << >>]
    /\ outcome = [w \in Workers |-> "none"]
    /\ prev = [w \in Workers |-> NoPrev]
    /\ appended = [k \in AllKeys |-> 0]
    /\ crashes = 0
    /\ ncalls = 0

\* one collection worker using the ledger
Init == LedgerInit(1) /\ RetryIdle /\ ThrottleInit(0) /\ ReconcileIdle /\ ClientsIdle
Next == LedgerStep
Spec == Init /\ [][Next]_vars

\* several collection workers sharing the ledger
ConcInit == LedgerInit(2) /\ RetryIdle /\ ThrottleInit(0) /\ ReconcileIdle /\ ClientsIdle
ConcNext == LedgerStep
SpecConc == ConcInit /\ [][ConcNext]_vars

\* one caller of a function wrapped by apply_rate_limiting
RetryInit == LedgerInit(0) /\ RetryIdle /\ ThrottleInit(0) /\ ReconcileIdle /\ ClientsIdle
RetryNext == RetryStep
SpecRetry == RetryInit /\ [][RetryNext]_vars

\* calls made one after another through one throttle_requests wrapper
ThrottleSeqInit == LedgerInit(0) /\ RetryIdle /\ ThrottleInit(1) /\ ReconcileIdle /\ ClientsIdle
ThrottleNext == ThrottleStep
SpecThrottle == ThrottleSeqInit /\ [][ThrottleNext]_vars

\* two callers using one throttle_requests wrapper at the same time
ThrottleConcInit == LedgerInit(0) /\ RetryIdle /\ ThrottleInit(2) /\ ReconcileIdle /\ ClientsIdle
ThrottleConcNext == ThrottleStep
SpecThrottleConc == ThrottleConcInit /\ [][ThrottleConcNext]_vars

\* reconcile_session_data on inputs of every kind, present or not
AnyInit == LedgerInit(0) /\ RetryIdle /\ ThrottleInit(0)
               /\ ReconcileInit({"timing", "telemetry", "weather", "live_timing"}, AnyInputs) /\ ClientsIdle
AnyNext == ReconcileStep
SpecReconcile == AnyInit /\ [][AnyNext]_vars

\* reconcile_session_data on two timing frames
TimingInit == LedgerInit(0) /\ RetryIdle /\ ThrottleInit(0)
                  /\ ReconcileInit({"timing"}, TimingInputs) /\ ClientsIdle
TimingNext == ReconcileStep
SpecTiming == TimingInit /\ [][TimingNext]_vars

\* reconcile_session_data on two telemetry frames
TelemetryInit == LedgerInit(0) /\ RetryIdle /\ ThrottleInit(0)
                     /\ ReconcileInit({"telemetry"}, TelemetryInputs) /\ ClientsIdle
TelemetryNext == ReconcileStep
SpecTelemetry == TelemetryInit /\ [][TelemetryNext]_vars

\* reconcile_session_data on two frames of a data type without a strategy of its own
GenericInit == LedgerInit(0) /\ RetryIdle /\ ThrottleInit(0)
                   /\ ReconcileInit({"weather", "live_timing"}, GenericInputs) /\ ClientsIdle
GenericNext == ReconcileStep
SpecGeneric == GenericInit /\ [][GenericNext]_vars

\* reconcile_full_session on two sessions, present or not
FullSessionInit == LedgerInit(0) /\ RetryIdle /\ ThrottleInit(0) /\ ReconcileIdle
                       /\ SessionInit(SessionInputs) /\ CallerIdle /\ PeerIdle
                       /\ CollectIdle
FullSessionNext == SessionStep
SpecFullSession == FullSessionInit /\ [][FullSessionNext]_vars

\* one worker using the ledger and a caller of get_all_completed
SnapshotInit == LedgerInit(1) /\ RetryIdle /\ ThrottleInit(0) /\ ReconcileIdle
                    /\ SessionIdle /\ CallerIdle /\ PeerIdle /\ CollectIdle
SnapshotNext ==
    \/ LoadCheck
    \/ LoadCreate
    \/ \E w \in Workers, k \in Keys : Call(w, k)
    \/ \E w \in Workers : Check(w)
    \/ \E w \in Workers : Open(w)
    \/ \E w \in Workers : Write(w)
    \/ \E w \in Workers : Close(w)
    \/ \E w \in Workers : Add(w)
    \/ GetAllCompleted
    \/ \E k \in Keys : CallerAdds(k)
    \/ \E k \in Keys : CallerDiscards(k)
SpecSnapshot == SnapshotInit /\ [][SnapshotNext]_vars

\* two ProgressTracker instances constructed on one log file
SharedInit == LedgerInit(1) /\ RetryIdle /\ ThrottleInit(0) /\ ReconcileIdle
                  /\ SessionIdle /\ CallerIdle /\ PeerInit /\ CollectIdle
SharedNext ==
    \/ LoadCheck
    \/ LoadRead
    \/ LoadCreate
    \/ \E w \in Workers, k \in Keys : Call(w, k)
    \/ \E w \in Workers : Check(w)
    \/ \E w \in Workers : Open(w)
    \/ \E w \in Workers : OpenFails(w)
    \/ \E w \in Workers : Write(w)
    \/ \E w \in Workers : Close(w)
    \/ \E w \in Workers : CloseFails(w)
    \/ \E w \in Workers : Add(w)
    \/ PeerStep
SpecShared == SharedInit /\ [][SharedNext]_vars

\* one worker marking keys of any content, line breaks included
AnyKeyInit == LedgerInit(1) /\ RetryIdle /\ ThrottleInit(0) /\ ReconcileIdle
                  /\ ClientsIdle
AnyKeyNext ==
    \/ LoadCheck
    \/ LoadCreate
    \/ \E w \in Workers, k \in AllKeys : Call(w, k)
    \/ \E w \in Workers : Check(w)
    \/ \E w \in Workers : Open(w)
    \/ \E w \in Workers : OpenFails(w)
    \/ \E w \in Workers : Write(w)
    \/ \E w \in Workers : Close(w)
    \/ \E w \in Workers : CloseFails(w)
    \/ \E w \in Workers : Add(w)
SpecAnyKey == AnyKeyInit /\ [][AnyKeyNext]_vars

\* a collector called again and again, its ledger and its wrapped fetch
CollectorInit == LedgerInit(1) /\ RetryIdle /\ ThrottleInit(0) /\ ReconcileIdle
                     /\ SessionIdle /\ CallerIdle /\ PeerIdle /\ CollectInit
CollectorNext ==
    \/ LoadCheck
    \/ LoadCreate
    \/ CollectStep
    \/ FuncReturns
    \/ \E c \in ErrorClasses : FuncRaises(c)
    \/ Handle
    \/ Sleep
    \/ \E w \in Workers : Check(w)
    \/ \E w \in Workers : Open(w)
    \/ \E w \in Workers : OpenFails(w)
    \/ \E w \in Workers : Write(w)
    \/ \E w \in Workers : Close(w)
    \/ \E w \in Workers : CloseFails(w)
    \/ \E w \in Workers : Add(w)
SpecCollector == CollectorInit /\ [][CollectorNext]_vars

----------------------------------------------------------------------------
(* Properties of the completion ledger *)

\* k stands in s as one whole line: it starts at the beginning of s or after a
\* line break, and ends at a line break or at the end of s
IsLine(k, s) ==
    \E i \in 1..(Len(s) + 1) :
        /\ i = 1 \/ s[i - 1] = NL
        /\ i + Len(k) - 1 <= Len(s)
        /\ SubSeq(s, i, i + Len(k) - 1) = k
        /\ \/ i + Len(k) <= Len(s) /\ s[i + Len(k)] = NL
           \/ i + Len(k) - 1 = Len(s) /\ Len(k) > 0

\* a ledger that has just been constructed: no call has been made on it yet
Fresh ==
    /\ init_pc = "ready"
    /\ \A w \in Workers : pc[w] \in {"idle", "off"} /\ item_key[w] = NoKey

\* worker w's last call has returned
Returned(w) == pc[w] = "idle" /\ outcome[w] = "returned"

\* C1 (idempotence): with one worker, when mark_completed(k) returns right
\* after an earlier mark_completed(k) returned, the in-memory set and the
\* backing store are exactly as the first call left them; after either call
\* is_completed(k) is true and k has been appended exactly once.
C1_MarkTwiceSameAsOnce ==
    \A w \in Workers :
        Returned(w) =>
            /\ is_completed(item_key[w])
            /\ appended[item_key[w]] = 1
            /\ (prev[w].outcome = "returned" /\ prev[w].key = item_key[w]) =>
                   /\ store = prev[w].store
                   /\ completed_items = prev[w].items

C1_Witness ==
    \E w \in Workers :
        /\ Returned(w)
        /\ prev[w].outcome = "returned"
        /\ prev[w].key = item_key[w]
        /\ crashes = 0
        /\ ncalls = 2

\* C2 (resumability): a freshly constructed ledger reports complete exactly
\* the keys whose records were appended to the backing store before, however
\* many times each was appended, and no other key.
C2_FreshLedgerReportsStoredKeys ==
    Fresh => completed_items = {k \in Keys : appended[k] > 0}

C2_Witness ==
    /\ Fresh
    /\ crashes > 0
    /\ \E A, B, C \in Keys :
          /\ A # B
          /\ appended[A] > 1
          /\ appended[B] > 0
          /\ appended[C] = 0
          /\ is_completed(A) /\ is_completed(B) /\ ~is_completed(C)

\* C3 (write before act): in every state, also between the steps of
\* mark_completed and after a crash, every key of the in-memory set stands as
\* a line of the backing store.
C3_MemoryWithinStore ==
    \A k \in completed_items : IsLine(k, store)

C3_Witness ==
    \E w \in Workers :
        /\ pc[w] = "l54"
        /\ ~is_completed(item_key[w])
        /\ IsLine(item_key[w], store)
        /\ completed_items # {}

\* a step in which worker w's durable append fails: it leaves the open or the
\* flush without a record having been appended (and the process did not die)
AppendFailedStep(w) ==
    /\ pc[w] \in {"l52", "close"}
    /\ pc'[w] \notin {pc[w], "l53"}
    /\ appended' = appended
    /\ crashes' = crashes

\* C4 (failed append): when the durable append of mark_completed(k) fails,
\* the failure reaches the caller and the in-memory set is unchanged; while the
\* failed call is the last one, is_completed(k) is false and the set is as at
\* the call's entry.
C4_FailedAppendPropagates ==
    /\ [][\A w \in Workers :
            AppendFailedStep(w) =>
                /\ outcome'[w] = "raised"
                /\ pc'[w] = "idle"
                /\ completed_items' = completed_items]_vars
    /\ [](\A w \in Workers :
            outcome[w] = "raised" =>
                /\ ~is_completed(item_key[w])
                /\ completed_items = prev[w].items)

C4_Witness ==
    \E w \in Workers :
        /\ outcome[w] = "raised"
        /\ pc[w] = "idle"
        /\ completed_items # {}
        /\ ~is_completed(item_key[w])

\* C5 (same key, concurrent calls): no key is appended to the backing store
\* more than once.
C5_NoDoubleAppend ==
    \A k \in Keys : appended[k] <= 1

\* worker w holds the backing store open for append (lines 52-53)
InAppend(w) == pc[w] \in {"l53", "close"}

\* C6 (different keys, concurrent calls): the durable append is exclusive, no
\* two workers marking different keys are inside it at once; and every key
\* whose call has returned stands as one whole line of the store and is
\* reported complete.
C6_DifferentKeysSafe ==
    /\ \A w1, w2 \in Workers :
          (w1 # w2 /\ item_key[w1] # item_key[w2]) =>
              ~(InAppend(w1) /\ InAppend(w2))
    /\ \A w \in Workers :
          Returned(w) => IsLine(item_key[w], store) /\ is_completed(item_key[w])

----------------------------------------------------------------------------
(* Properties of apply_rate_limiting *)

\* the call of the wrapper has ended
RetryEnded == rl_pc \in {"returned", "raised"}

AllRateLimited == \A i \in 1..Len(history) : history[i] = "RateLimit"

\* C7 (retry cap): when every invocation of func fails with a rate-limit
\* error, the call ends only after exactly 5 invocations and 4 sleeps (one
\* after each invocation but the last), and it ends by raising the error of
\* the 5th invocation; until then a sleep follows each failed invocation.
C7_RetryCapRaisesLast ==
    (history # << >> /\ AllRateLimited) =>
        /\ RetryEnded =>
              /\ Len(history) = 5
              /\ Len(slept) = 4
              /\ rl_pc = "raised"
              /\ rl_result = [kind |-> "error", class |-> "RateLimit", by |-> 5]
        /\ Len(history) <= 5
        /\ Len(slept) \in {Len(history) - 1, Len(history)}
        /\ Len(slept) <= 4

C7_Witness ==
    /\ rl_pc = "raised"
    /\ Len(history) = 5
    /\ AllRateLimited
    /\ Len(slept) = 4

\* C8 (fast fail): an invocation that fails with an error not classified as
\* rate limiting is the last invocation of the call; no sleep follows it, and
\* the call ends by raising that very error; when it is the first failure,
\* one invocation has occurred and nothing was slept.
C8_OtherErrorNotRetried ==
    \A i \in 1..Len(history) :
        history[i] = "Other" =>
            /\ i = Len(history)
            /\ Len(slept) = i - 1
            /\ rl_pc \in {"except", "raised"}
            /\ rl_pc = "raised" =>
                   rl_result = [kind |-> "error", class |-> "Other", by |-> i]
            /\ rl_result.kind \in {"none", "error"}

C8_Witness ==
    /\ rl_pc = "raised"
    /\ history = <<"Other">>
    /\ slept = << >>
    /\ rl_result = [kind |-> "error", class |-> "Other", by |-> 1]

\* the minimum delay the tiers set for the sleep after attempt n, in seconds
TierFloor(n) ==
    IF n >= 3 THEN 1800 ELSE IF n >= 2 THEN 300 ELSE IF n >= 1 THEN 60 ELSE 0

\* C9 (backoff floors): the delay slept after attempt n (0-based) is
\* 5 * 2^n + jitter, jitter in [0, 1), raised to the floor of n's tier (60 from
\* n = 1, 300 from n = 2, 1800 from n = 3); the delays slept are non-decreasing.
C9_BackoffFloors ==
    /\ \A i \in 1..Len(slept) :
          LET n == i - 1 IN
          /\ \E j \in 0..(JitterSteps - 1) :
                slept[i] = Max(Seconds(5 * (2 ^ n)) + j, Seconds(TierFloor(n)))
          /\ slept[i] >= Seconds(TierFloor(n))
    /\ \A i \in 1..(Len(slept) - 1) : slept[i] <= slept[i + 1]

C9_Witness ==
    /\ Len(slept) = 4
    /\ slept[1] > Seconds(5)
    /\ slept[1] < Seconds(6)
    /\ slept[2] = Seconds(60)
    /\ slept[3] = Seconds(300)
    /\ slept[4] = Seconds(1800)

----------------------------------------------------------------------------
(* Properties of throttle_requests *)

\* C10 (minimum interval): with calls made one after another, every
\* invocation of func starts at least min_interval after the previous call
\* through the wrapper ended, whether that call returned or raised.
C10_StartsMinIntervalAfterPrevious ==
    \A c \in Callers :
        (th_pc[c] = "func" /\ finished_before[c] # NoTime) =>
            started[c] >= finished_before[c] + MinInterval

\* C11 (shared gate): with several callers on one wrapper, no two invocations
\* of func overlap, and no two of them start less than min_interval apart.
C11_CallersSerialised ==
    \A c1, c2 \in Callers :
        c1 # c2 =>
            /\ ~(th_pc[c1] = "func" /\ th_pc[c2] = "func")
            /\ (started[c1] # NoTime /\ started[c2] # NoTime) =>
                   \/ started[c1] - started[c2] >= MinInterval
                   \/ started[c2] - started[c1] >= MinInterval

----------------------------------------------------------------------------
(* Properties of reconcile_session_data *)

RcReturned == rc_pc = "returned"

AbsencePaths == {"no_data", "fastf1_only", "openf1_only"}

\* C12 (merge absence rules): for every data type, with both inputs None the
\* result is None; with one input None the result is the other input,
\* unchanged; and in all three cases the value comes from lines 48-58, no
\* strategy having run.
C12_AbsenceRules ==
    RcReturned /\ (fastf1_arg = None \/ openf1_arg = None) =>
        /\ rc_path \in AbsencePaths
        /\ fastf1_data = fastf1_arg /\ openf1_data = openf1_arg
        /\ fastf1_arg = None /\ openf1_arg = None => rc_result = None
        /\ fastf1_arg # None => rc_result = fastf1_arg
        /\ openf1_arg # None => rc_result = openf1_arg

C12_Witness ==
    /\ RcReturned
    /\ fastf1_arg = None
    /\ IsFrame(openf1_arg)
    /\ rc_result = openf1_arg
    /\ rc_path = "openf1_only"

----------------------------------------------------------------------------
(* Properties of the timing strategy *)

\* the cell of row r of df under label c; row 0 stands for "no such row"
CellOf(df, r, c) == IF r = 0 THEN NaN ELSE df.rows[r][ColIndex(df, c)]

FirstNonNull(a, b) == IF a # NaN THEN a ELSE b

KeyAt(df, r, on) == [k \in 1..Len(on) |-> CellOf(df, r, on[k])]

\* a FastF1 row and an OpenF1 row with the same key, or a row of one side
\* whose key the other side lacks (0 on the other side)
TimingPairs(left, right, on) ==
    {p \in (0..Len(left.rows)) \X (0..Len(right.rows)) :
        \/ p[1] # 0 /\ p[2] # 0 /\ KeyAt(left, p[1], on) = KeyAt(right, p[2], on)
        \/ /\ p[1] # 0 /\ p[2] = 0
           /\ \A r \in 1..Len(right.rows) : KeyAt(right, r, on) # KeyAt(left, p[1], on)
        \/ /\ p[1] = 0 /\ p[2] # 0
           /\ \A l \in 1..Len(left.rows) : KeyAt(left, l, on) # KeyAt(right, p[2], on)}

\* the call as the claims about the timing merge see it: the two frames as
\* pd.merge gets them at line 94 (after lines 77-85), the join key, the
\* fields both sides have outside the key, and the pairs of rows to merge
TimingView ==
    LET f == NormaliseTime(fastf1_arg)
        right == NormaliseTime(openf1_arg)
        left == IF HasColumn(f, <<"DriverNumber">>) /\ HasColumn(right, <<"driver_number">>)
                THEN SetColumn(f, <<"driver_number">>, Series(f, <<"DriverNumber">>))
                ELSE f
        on == merge_cols(left, right)
    IN  [left |-> left, right |-> right, on |-> on,
         shared |-> (Range(left.columns) \cap Range(right.columns)) \ Range(on),
         pairs |-> TimingPairs(left, right, on),
         priority |-> priority_source(data_type)]

PairKey(v, p) ==
    IF p[1] # 0 THEN KeyAt(v.left, p[1], v.on) ELSE KeyAt(v.right, p[2], v.on)

\* what the claim says field c of the record merged from pair p holds
PriorityValue(v, p, c) ==
    IF v.priority = "fastf1"
    THEN FirstNonNull(CellOf(v.left, p[1], c), CellOf(v.right, p[2], c))
    ELSE FirstNonNull(CellOf(v.right, p[2], c), CellOf(v.left, p[1], c))

\* row m of the result is the record merged from pair p, as far as the key
\* and the shared fields go
MergedFrom(v, m, p) ==
    /\ KeyAt(rc_result, m, v.on) = PairKey(v, p)
    /\ \A c \in v.shared : CellOf(rc_result, m, c) = PriorityValue(v, p, c)

TimingMerged == RcReturned /\ rc_path = "timing_merged"

\* C13 (timing merge priority): when both timing sources share a join key,
\* every merged record carries, in every non-key field both sides have, the
\* priority source's value when that is not null and the other source's value
\* otherwise; and every pair of records with the same key is merged so.
C13_TimingPriorityWins ==
    TimingMerged =>
        LET v == TimingView
        IN  /\ \A c \in v.shared : HasColumn(rc_result, c)
            /\ \A m \in 1..Len(rc_result.rows) : \E p \in v.pairs : MergedFrom(v, m, p)
            /\ \A p \in v.pairs : \E m \in 1..Len(rc_result.rows) : MergedFrom(v, m, p)

\* the same (time, driver) key on both sides, lap 582 against 585 gives 582,
\* and a null lap of the priority source is filled with 585
C13_Witness ==
    /\ TimingMerged
    /\ LET v == TimingView
       IN  /\ Len(v.on) = 2
           /\ \E p \in v.pairs :
               /\ p[1] # 0 /\ p[2] # 0
               /\ CellOf(v.left, p[1], <<"lap">>) = 582
               /\ CellOf(v.right, p[2], <<"lap">>) = 585
               /\ \E m \in 1..Len(rc_result.rows) :
                   MergedFrom(v, m, p) /\ CellOf(rc_result, m, <<"lap">>) = 582
           /\ \E p \in v.pairs :
               /\ p[1] # 0 /\ p[2] # 0
               /\ CellOf(v.left, p[1], <<"lap">>) = NaN
               /\ CellOf(v.right, p[2], <<"lap">>) = 585
               /\ \E m \in 1..Len(rc_result.rows) :
                   MergedFrom(v, m, p) /\ CellOf(rc_result, m, <<"lap">>) = 585

\* row r of df is in the result: some merged row has its key and, in every
\* field only df's side has, its value
Retained(v, df, r) ==
    \E m \in 1..Len(rc_result.rows) :
        /\ KeyAt(rc_result, m, v.on) = KeyAt(df, r, v.on)
        /\ \A c \in Range(df.columns) \ v.shared :
            HasColumn(rc_result, c) /\ CellOf(rc_result, m, c) = CellOf(df, r, c)

\* C14 (timing outer join): when the two timing sources share a join key,
\* every record of either source is in the merged result, matched or not.
C14_TimingKeepsEveryRecord ==
    TimingMerged =>
        LET v == TimingView
        IN  /\ \A l \in 1..Len(v.left.rows) : Retained(v, v.left, l)
            /\ \A r \in 1..Len(v.right.rows) : Retained(v, v.right, r)

\* a record of each side has no match on the other side and is retained
C14_Witness ==
    /\ TimingMerged
    /\ LET v == TimingView
       IN  /\ \E p \in v.pairs : p[2] = 0 /\ Retained(v, v.left, p[1])
           /\ \E p \in v.pairs : p[1] = 0 /\ Retained(v, v.right, p[2])

----------------------------------------------------------------------------
(* Properties of the telemetry strategy *)

TelemetryMerged == RcReturned /\ rc_path = "telemetry_merged"

TimesOf(df) == Range(Series(df, <<"time">>))

Least(S) == CHOOSE x \in S : \A y \in S : x <= y
Greatest(S) == CHOOSE x \in S : \A y \in S : x >= y

Dist(a, b) == IF a >= b THEN a - b ELSE b - a

\* the rows of df whose time is in [lo, hi]
RowsInWindow(df, lo, hi) ==
    {r \in 1..Len(df.rows) :
        lo <= CellOf(df, r, <<"time">>) /\ CellOf(df, r, <<"time">>) <= hi}

\* the call as the claims about the telemetry merge see it: the two sources
\* under the shared vocabulary of lines 129-149, the overlap window
\* [max(minTime_A, minTime_B), min(maxTime_A, maxTime_B)], the priority
\* source as the backbone, and the records the window does not exclude
TelemetryView ==
    LET a == rename(fastf1_arg, fastf1_mapping)
        b == rename(openf1_arg, openf1_mapping)
        lo == Greatest({Least(TimesOf(a)), Least(TimesOf(b))})
        hi == Least({Greatest(TimesOf(a)), Greatest(TimesOf(b))})
        base == IF priority_source(data_type) = "fastf1" THEN a ELSE b
        secondary == IF priority_source(data_type) = "fastf1" THEN b ELSE a
    IN  [a |-> a, b |-> b, lo |-> lo, hi |-> hi, base |-> base, secondary |-> secondary,
         base_rows |-> RowsInWindow(base, lo, hi),
         secondary_rows |-> RowsInWindow(secondary, lo, hi),
         shared |-> (Range(base.columns) \cap Range(secondary.columns)) \ {<<"time">>},
         secondary_only |-> Range(secondary.columns) \ Range(base.columns)]

InWindow(v, t) == v.lo <= t /\ t <= v.hi

\* C15 (telemetry window exclusion): every row of a merged telemetry result
\* has its time inside [max(minTime_A, minTime_B), min(maxTime_A, maxTime_B)].
C15_TelemetryRowsInsideWindow ==
    TelemetryMerged =>
        LET v == TelemetryView
        IN  \A m \in 1..Len(rc_result.rows) :
                InWindow(v, CellOf(rc_result, m, <<"time">>))

\* the priority source has a record before the window and one after it, and
\* the result is not empty
C15_Witness ==
    /\ TelemetryMerged
    /\ Len(rc_result.rows) > 0
    /\ LET v == TelemetryView
       IN  /\ \E t \in TimesOf(v.a) : t < v.lo
           /\ \E t \in TimesOf(v.a) : t > v.hi

\* the rows of df whose time is t
RowsAt(df, t) == {r \in 1..Len(df.rows) : CellOf(df, r, <<"time">>) = t}

\* C16 (telemetry merge is directional): a merged telemetry result has exactly
\* one row per record of the priority source inside the overlap window, in
\* ascending order of time; the other source adds no row.
C16_TelemetryRowsAreBackbone ==
    TelemetryMerged =>
        LET v == TelemetryView
        IN  /\ \A t \in TimesOf(v.a) \cup TimesOf(v.b) \cup TimesOf(rc_result) :
                Cardinality(RowsAt(rc_result, t)) =
                    IF InWindow(v, t) THEN Cardinality(RowsAt(v.base, t)) ELSE 0
            /\ \A m \in 2..Len(rc_result.rows) :
                CellOf(rc_result, m - 1, <<"time">>) <= CellOf(rc_result, m, <<"time">>)

\* the priority source lists two records of the window out of order, and the
\* other source has a record in the window at a time the priority source lacks
C16_Witness ==
    /\ TelemetryMerged
    /\ Len(rc_result.rows) >= 2
    /\ LET v == TelemetryView
       IN  /\ \E r \in v.base_rows :
               /\ r - 1 \in v.base_rows
               /\ CellOf(v.base, r, <<"time">>) < CellOf(v.base, r - 1, <<"time">>)
           /\ \E s \in v.secondary_rows :
               CellOf(v.secondary, s, <<"time">>) \notin TimesOf(v.base)

\* the secondary records that may serve backbone record b: the nearest in
\* time among those in the window, if within the tolerance
NearestWithinTolerance(v, b) ==
    LET t == CellOf(v.base, b, <<"time">>)
        d(s) == Dist(CellOf(v.secondary, s, <<"time">>), t)
    IN  {s \in v.secondary_rows :
            d(s) <= Tolerance /\ \A s2 \in v.secondary_rows : d(s) <= d(s2)}

\* row m of the result is backbone record b completed from secondary record s
\* (0 for none)
CompletedFrom(v, m, b, s) ==
    /\ \A c \in Range(v.base.columns) \ v.shared :
        CellOf(rc_result, m, c) = CellOf(v.base, b, c)
    /\ \A c \in v.shared :
        CellOf(rc_result, m, c) =
            FirstNonNull(CellOf(v.base, b, c), CellOf(v.secondary, s, c))
    /\ \A c \in v.secondary_only :
        CellOf(rc_result, m, c) = CellOf(v.secondary, s, c)

Completes(v, m, b) ==
    LET near == NearestWithinTolerance(v, b)
    IN  IF near = {} THEN CompletedFrom(v, m, b, 0)
        ELSE \E s \in near : CompletedFrom(v, m, b, s)

\* C17 (telemetry nearest match within tolerance): in a merged telemetry
\* result every row is a backbone record whose shared fields hold the
\* backbone's value if present and else the value of the secondary record
\* nearest in time, provided that record is within the tolerance; with no
\* secondary record within the tolerance the field stays unfilled.
C17_TelemetryNearestWithinTolerance ==
    TelemetryMerged =>
        LET v == TelemetryView
        IN  /\ Range(rc_result.columns) =
                Range(v.base.columns) \cup Range(v.secondary.columns)
            /\ \A m \in 1..Len(rc_result.rows) : \E b \in v.base_rows : Completes(v, m, b)
            /\ \A b \in v.base_rows : \E m \in 1..Len(rc_result.rows) : Completes(v, m, b)

\* a backbone record without a speed takes it from the secondary record one
\* unit away, a second secondary record of the window being farther; another
\* backbone record keeps its own speed against a secondary record at its time
C17_Witness ==
    /\ TelemetryMerged
    /\ LET v == TelemetryView
       IN  /\ <<"speed">> \in v.shared
           /\ Cardinality(v.secondary_rows) = 2
           /\ \E b \in v.base_rows, s \in v.secondary_rows :
               /\ CellOf(v.base, b, <<"speed">>) = NaN
               /\ CellOf(v.secondary, s, <<"speed">>) # NaN
               /\ NearestWithinTolerance(v, b) = {s}
               /\ Dist(CellOf(v.base, b, <<"time">>),
                       CellOf(v.secondary, s, <<"time">>)) = Tolerance
               /\ \E m \in 1..Len(rc_result.rows) :
                   CompletedFrom(v, m, b, s) /\ CellOf(rc_result, m, <<"speed">>) # NaN
           /\ \E b \in v.base_rows, s \in v.secondary_rows :
               /\ CellOf(v.base, b, <<"speed">>) # NaN
               /\ CellOf(v.secondary, s, <<"speed">>) # NaN
               /\ s \in NearestWithinTolerance(v, b)
               /\ \E m \in 1..Len(rc_result.rows) :
                   /\ CompletedFrom(v, m, b, s)
                   /\ CellOf(rc_result, m, <<"speed">>) = CellOf(v.base, b, <<"speed">>)

----------------------------------------------------------------------------
(* Properties of the generic strategy *)

GenericPrimary == IF priority_source(data_type) = "fastf1" THEN fastf1_arg ELSE openf1_arg
GenericSecondary == IF priority_source(data_type) = "fastf1" THEN openf1_arg ELSE fastf1_arg

IsGeneric == data_type \notin {"timing", "telemetry"}

BothFrames == IsFrame(fastf1_arg) /\ IsFrame(openf1_arg)

FieldNames(df) == Range(df.columns)

\* C18 (generic structural fallback): for a data type other than timing and
\* telemetry, when the two sources differ in field count or in field names
\* the result is the priority source's data unchanged, nothing having been
\* merged into it.
C18_GenericMismatchGivesPriority ==
    /\ RcReturned /\ IsGeneric /\ BothFrames
    /\ \/ Len(fastf1_arg.columns) # Len(openf1_arg.columns)
       \/ FieldNames(fastf1_arg) # FieldNames(openf1_arg)
    => /\ rc_result = GenericPrimary
       /\ rc_path = "generic_differ"
       /\ fastf1_data = fastf1_arg /\ openf1_data = openf1_arg

\* {x,y} against {x,y,z}: the priority source's null y stays null although
\* the other source has a y
C18_Witness ==
    /\ RcReturned /\ IsGeneric /\ BothFrames
    /\ FieldNames(GenericPrimary) = {<<"x">>, <<"y">>}
    /\ FieldNames(GenericSecondary) = {<<"x">>, <<"y">>, <<"z">>}
    /\ CellOf(GenericPrimary, 1, <<"y">>) = NaN
    /\ CellOf(GenericSecondary, 1, <<"y">>) # NaN
    /\ rc_result = GenericPrimary


\* every cell of the result is the priority source's value if that is not
\* null, else the other source's value in the same row and field (null when
\* the other source has no such row)
CellByCell ==
    /\ IsFrame(rc_result)
    /\ FieldNames(rc_result) = FieldNames(GenericPrimary)
    /\ Len(rc_result.rows) = Len(GenericPrimary.rows)
    /\ \A r \in 1..Len(rc_result.rows) :
        \A c \in FieldNames(rc_result) :
            CellOf(rc_result, r, c) =
                FirstNonNull(CellOf(GenericPrimary, r, c),
                             CellOf(GenericSecondary,
                                    IF r <= Len(GenericSecondary.rows) THEN r ELSE 0, c))

----------------------------------------------------------------------------
(* The failure policy of the three strategies *)

ExceptPaths == {"timing_except", "telemetry_except", "generic_except"}

PriorityInput == IF priority_source(data_type) = "fastf1" THEN fastf1_arg ELSE openf1_arg

\* C20 (merge failure policy): for every data type and every pair of present
\* inputs reconcile_session_data returns (it never raises), and when a step
\* of the strategy failed the result is the priority source's input exactly
\* as the caller passed it.
C20_FailureGivesPriorityInputAsPassed ==
    RcReturned /\ fastf1_arg # None /\ openf1_arg # None =>
        /\ rc_path # "raised"
        /\ rc_path \in ExceptPaths => rc_result = PriorityInput

----------------------------------------------------------------------------
(* Frame effects of reconcile_session_data *)

\* C21 (no input mutation): after reconcile_session_data returns, for every
\* data type and every pair of inputs, the caller's two objects have the
\* fields and values they had when the call was made.
C21_InputsNotMutated ==
    RcReturned => fastf1_data = fastf1_arg /\ openf1_data = openf1_arg

\* C26 (timing fallback without a shared key): when both timing inputs are
\* present and, after normalisation, neither the time field nor the driver
\* field is on both sides, the result is the priority source's data with
\* exactly the fields and values the caller passed in.
C26_NoKeyGivesPriorityInputAsPassed ==
    RcReturned /\ rc_path = "timing_no_key" => rc_result = PriorityInput

----------------------------------------------------------------------------
(* Termination of a call through apply_rate_limiting *)

\* func, once invoked, returns or raises, and time.sleep returns
RetryProgress ==
    \/ FuncReturns
    \/ \E c \in ErrorClasses : FuncRaises(c)
    \/ Handle
    \/ Sleep

SpecRetryFair == RetryInit /\ [][RetryNext]_vars /\ WF_vars(RetryProgress)

\* the call made at most max_retries invocations and slept between them only
RetryBounded ==
    /\ Len(history) <= max_retries
    /\ Len(slept) <= max_retries - 1
    /\ Len(slept) <= Len(history)

\* the call ended in one of the two ways a call can end: by returning the
\* value of its one successful invocation, the last, or by raising the error
\* of its last invocation
RetryOutcome ==
    LET n == Len(history) IN
    /\ n >= 1
    /\ \A i \in 1..(n - 1) : history[i] # "ok"
    /\ \/ /\ rl_pc = "returned"
          /\ history[n] = "ok"
          /\ rl_result = [kind |-> "value", class |-> "none", by |-> n]
       \/ /\ rl_pc = "raised"
          /\ history[n] # "ok"
          /\ rl_result = [kind |-> "error", class |-> history[n], by |-> n]

\* C29 (termination): every call through apply_rate_limiting ends, after at
\* most 5 invocations of func and at most 4 sleeps, either by returning the
\* value of the one invocation that succeeded or by raising the error of the
\* last invocation; it never leaves the retry loop returning nothing.
C29_CallEndsWithValueOrLastError ==
    /\ [](RetryBounded /\ (RetryEnded => RetryOutcome))
    /\ (rl_pc = "try" ~> RetryEnded)

C29_Witness ==
    /\ rl_pc = "returned"
    /\ Len(history) = max_retries
    /\ Len(slept) = max_retries - 1
    /\ rl_result.kind = "value"

----------------------------------------------------------------------------
(* Properties of reconcile_full_session *)

FullSessionReturned == fs_pc = "returned"

\* the session handed in holds data, not None, for the data type
Supplies(session, dt) ==
    /\ session.kind = "dict"
    /\ dt \in DOMAIN session.items
    /\ session.items[dt] # None

\* what the session handed in holds for the data type, None when it has nothing
Supplied(session, dt) == IF Supplies(session, dt) THEN session.items[dt] ELSE None

\* C22 (whole-session reconciliation): reconcile_full_session calls
\* reconcile_session_data once for each of timing, telemetry, weather,
\* car_data and position, on what the two sessions hold for that data type;
\* the keys of the map it returns are exactly the data types for which at
\* least one session supplied data; no entry is None; and each entry is what
\* reconcile_session_data gives for that data type's two inputs alone.
C22_FullSessionPerCategory ==
    FullSessionReturned =>
        /\ [i \in 1..Len(fs_calls) |-> fs_calls[i].data_type] = data_types
        /\ \A i \in 1..Len(fs_calls) :
              /\ fs_calls[i].fastf1_data = Supplied(fastf1_given, data_types[i])
              /\ fs_calls[i].openf1_data = Supplied(openf1_session, data_types[i])
        /\ DOMAIN reconciled_data.items =
              {dt \in Range(data_types) :
                  Supplies(fastf1_given, dt) \/ Supplies(openf1_session, dt)}
        /\ \A dt \in DOMAIN reconciled_data.items :
              /\ reconciled_data.items[dt] # None
              /\ reconciled_data.items[dt].kind \in {"DataFrame", "list"}
              /\ reconciled_data.items[dt] =
                    reconcile_session_data(Supplied(fastf1_given, dt),
                                           Supplied(openf1_session, dt), dt).result

\* weather is None in both sessions, position only in OpenF1's, telemetry is
\* missing from FastF1's session and timing from neither
C22_Witness ==
    /\ FullSessionReturned
    /\ Supplies(fastf1_given, "timing") /\ Supplies(openf1_session, "timing")
    /\ ~Supplies(fastf1_given, "telemetry") /\ Supplies(openf1_session, "telemetry")
    /\ fastf1_given.kind = "dict" /\ "weather" \in DOMAIN fastf1_given.items
    /\ Supplies(fastf1_given, "position") /\ ~Supplies(openf1_session, "position")
    /\ DOMAIN reconciled_data.items = {"timing", "telemetry", "position"}

----------------------------------------------------------------------------
(* Properties of get_all_completed, of several ledgers on one file, and of keys *)

\* the caller holds the set and has not changed it
HoldsUnchanged == all_completed # NoObject /\ caller_pc = "got"

\* C24 (snapshot): get_all_completed returns a snapshot. The set returned
\* equals the in-memory set at the time of the call; a later mark_completed
\* does not change the set returned; and a change the caller makes to the set
\* returned does not change what is_completed answers.
C24_GetAllCompletedIsSnapshot ==
    [][/\ GetAllCompleted => Contents(all_completed)' = completed_items
       /\ (HoldsUnchanged /\ HoldsUnchanged') => Contents(all_completed)' = at_call'
       /\ CallerChanges => completed_items' = completed_items]_vars

\* the store's text never loses a character it held, and a store that exists
\* is not created anew
StoreGrows ==
    /\ Len(store') >= Len(store)
    /\ SubSeq(store', 1, Len(store)) = store
    /\ store_exists => store_exists'

\* C25 (append-only store): across every interleaving of constructions and
\* mark_completed calls, by one ledger or by several ledgers on one backing
\* file, the store only grows: what was persisted is never removed or
\* truncated, and a construction creates the store only when it is absent.
C25_StoreOnlyGrows == [][StoreGrows]_vars

\* what a ProgressTracker constructed now on the same file would hold
FreshItems == LoadedSet(store)

\* C30 (key round trip): for every key string, one containing a line break
\* included, after mark_completed(k) returned a ProgressTracker constructed
\* on the same store holds the very set the marking instance holds.
C30_FreshLedgerEqualsPrevious ==
    \A w \in Workers : Returned(w) => FreshItems = completed_items

----------------------------------------------------------------------------
(* Properties of the collectors *)

\* a call of a collector has been made, and the last one stands anywhere
\* between its entry and its end
Collecting == col_pc \notin {"off", "idle"}

\* the ledger is exactly as the call found it
LedgerAsAtEntry == store = col_prev.store /\ completed_items = col_prev.items

\* the ledger reported the call's key complete
ReportedComplete == col_key \in col_prev.items

\* C23 (skip of completed work): when the ledger reports the key complete,
\* the collector performs no fetch and leaves the ledger unchanged; the fetch
\* is invoked only for keys the ledger reported not complete.
C23_CompletedKeyIsSkipped ==
    Collecting =>
        /\ ReportedComplete =>
              /\ rl_calls = col_prev.rl_calls
              /\ LedgerAsAtEntry
              /\ col_pc \in {"check", "returned"}
              /\ col_pc = "returned" => col_result = "None"
        /\ rl_calls # col_prev.rl_calls => ~ReportedComplete

C23_Witness ==
    /\ col_pc = "returned"
    /\ ReportedComplete
    /\ col_result = "None"
    /\ rl_calls = 1
    /\ ncollects = 2

\* the wrapped fetch of this call returned data that lets the key be marked
FetchGaveResult ==
    /\ rl_pc = "returned"
    /\ rl_result.kind = "value"
    /\ col_data = "data"
    /\ col_pc \in {"mark", "returned"}

\* C27 (mark only on success): a collector adds its key to the ledger only
\* after the wrapped fetch returned a result (for OpenF1, a non-empty one),
\* and adds no other key; when the fetch raises, after exhausting its retries
\* or at once, the ledger is unchanged and the key remains not completed.
C27_MarkedOnlyAfterFetchReturned ==
    Collecting =>
        /\ completed_items \subseteq col_prev.items \cup {col_key}
        /\ ~LedgerAsAtEntry => FetchGaveResult
        /\ (rl_calls # col_prev.rl_calls /\ rl_pc = "raised") =>
              /\ LedgerAsAtEntry
              /\ ~is_completed(col_key)
              /\ col_pc = "returned" => col_result = "None"

C27_Witness ==
    /\ col_pc = "returned"
    /\ rl_calls # col_prev.rl_calls
    /\ rl_pc = "raised"
    /\ Len(history) = max_retries
    /\ col_prev.items # {}
    /\ LedgerAsAtEntry

\* C28 (cancellation during backoff): when a wrapped fetch is aborted while
\* it sleeps between two tries, the ledger is untouched: the in-memory set
\* and the store are exactly as before the call, no mark_completed is under
\* way, and the key is still not completed.
C28_CancelledFetchLeavesLedger ==
    col_pc = "interrupted" =>
        /\ LedgerAsAtEntry
        /\ ~is_completed(col_key)
        /\ \A w \in Workers : pc[w] \in {"idle", "off"}
        /\ \A w \in Workers : buffer[w] = << >>

C28_Witness ==
    /\ col_pc = "interrupted"
    /\ Len(slept) = 2
    /\ Len(history) = 3
    /\ col_prev.items # {}
    /\ LedgerAsAtEntry

====
